---------------------------- MODULE Spec2Model ----------------------------
(***************************************************************************)
(* A model of the AIS vessel tracking backend (IdeaQru/aisnestjs):         *)
(*   - AisDataService: batch and bulk reconciliation of position reports   *)
(*     against the current-state collection and the archive (vessel log),  *)
(*     playback sampling, POI-area queries;                                *)
(*   - AisDataController: validation of POI-area queries;                  *)
(*   - TelkomsatClientService / TelkomsatCollectorService: deduplication   *)
(*     and the single-flight collection guard.                             *)
(*                                                                         *)
(* Every `await` of the source is a step boundary: an action is the code   *)
(* between two awaits.  A storage call is one atomic step that either      *)
(* succeeds or rejects (ok \in BOOLEAN).                                    *)
(***************************************************************************)
EXTENDS Integers, Sequences, FiniteSets, TLC

VARIABLES
    current,      \* the current_vessels collection: a sequence of documents
    logs,         \* the vessel log collection: a sequence of documents
    call,         \* per caller: the running updateCurrentVesselData / bulkUpsertVessels call
    used,         \* number of reports submitted so far (bounds the behaviours)
    succ,         \* history: per mmsi, the number of successful reconciliations
    hist,         \* history: per mmsi, the reports reconciled through updateCurrentVesselData
    clean,        \* history: per mmsi, TRUE while no step failed for it and no bulk write touched it
    isCollecting, \* TelkomsatCollectorService.isCollecting
    collection,   \* per caller: the running collectAndStoreVessels / forceAggressiveCollection call
    requestCount, \* TelkomsatClientService.requestCount: upstream requests issued
    started,      \* number of collections that passed the guard (bounds the behaviours)
    sched,        \* the collector's metrics and, per caller, its handleScheduledCollection call
    dd,           \* a deduplicateVessels / aggressive-merge call: its input and its output
    pb,           \* a getVesselPlaybackData call: its arguments and its output
    poi,          \* a POI-area request: its query, the storage operations issued, its outcome
    fleet,        \* the number of further rows of the current collection, held as a count
    gw,           \* VesselTrackingGateway: the clock, the connected clients, what was emitted
    processing,   \* a processTelkomsatVessels call: the upstream page and its result
    retention     \* a cleanupOldLogs call: its argument, the instant and its result

storeVars == <<current, logs, call, used, succ, hist, clean>>

collVars == <<isCollecting, collection, requestCount, started, sched>>

callVars == <<dd, pb, poi, fleet, gw, processing, retention>>

vars == <<current, logs, call, used, succ, hist, clean,
          isCollecting, collection, requestCount, started, sched,
          dd, pb, poi, fleet, gw, processing, retention>>

-----------------------------------------------------------------------------
(* Bounds of the model *)

\* longest report list handed to one call
MaxLen == 2
\* reports submitted in one behaviour, over all calls
MaxReports == 3
\* reports one collection receives from upstream, over all its fetches
MaxFetched == 2
\* collections that pass the guard in one behaviour
MaxCollections == 1
\* longest input of a deduplication
MaxDedup == 3
\* log entries in the archive when a playback is requested
MaxLogs == 3

MaxPageErrors == 1
\* records of an upstream page handed to processTelkomsatVessels
MaxPage == 2
\* reports the collections in flight have received together, when a second
\* collection can start
MaxFewFetched == 1

-----------------------------------------------------------------------------
(* Values *)

Procs == {1, 2}

MMSIs == {1, 2}

Unset == "unset"

Names == {"A"}

\* minutes of one day in the model's calendar (fixed-width time field)
TimesPerDay == 4

\* A report's timestamp is a string "<date> <time>"; both parts are fixed-width,
\* so the string is the pair <<date, time>>.
ReportStamps == {<<1, 0>>, <<1, 1>>}

\* new Date(vesselData.timestamp): the instant the string denotes
NewDate(ts) == ts[1] * TimesPerDay + ts[2]

\* CreateVesselDataDto: the optional fields are represented by `name`
\* (Unset: the key is absent or undefined)
Reports ==
    [mmsi : MMSIs, latitude : {1}, longitude : {104},
     timestamp : ReportStamps, name : Names \cup {Unset}]

NoRow == [mmsi |-> 0]

MinOf(S) == CHOOSE x \in S : \A y \in S : x <= y

-----------------------------------------------------------------------------
(* The storage layer (MongoDB collections through Mongoose models) *)

Indices(coll, m) == {i \in DOMAIN coll : coll[i].mmsi = m}

\* Model.findOne({ mmsi }): the first matching document, or null
FindOne(coll, m) ==
    IF Indices(coll, m) = {} THEN NoRow ELSE coll[MinOf(Indices(coll, m))]

\* The update document of findOneAndUpdate has no operators, so Mongoose sends
\* it as $set: keys the report does not carry keep their stored value.
SetFields(row, rep, count) ==
    [mmsi        |-> rep.mmsi,
     latitude    |-> rep.latitude,
     longitude   |-> rep.longitude,
     timestamp   |-> NewDate(rep.timestamp),
     name        |-> IF rep.name = Unset THEN row.name ELSE rep.name,
     updateCount |-> count]

EmptyDoc(m) ==
    [mmsi |-> m, latitude |-> 0, longitude |-> 0, timestamp |-> 0,
     name |-> Unset, updateCount |-> 0]

FindOneAndUpdate_DropsOthers(coll, rep, count) ==
    <<SetFields(EmptyDoc(rep.mmsi), rep, count)>>

FindOneAndUpdate_AlwaysInsert(coll, rep, count) ==
    Append(coll, SetFields(EmptyDoc(rep.mmsi), rep, count))

\* Model.findOneAndUpdate({ mmsi }, {...}, { upsert: true, new: true })
FindOneAndUpdate(coll, rep, count) ==
    IF Indices(coll, rep.mmsi) = {}
    THEN Append(coll, SetFields(EmptyDoc(rep.mmsi), rep, count))
    ELSE LET i == MinOf(Indices(coll, rep.mmsi))
         IN  [coll EXCEPT ![i] = SetFields(coll[i], rep, count)]

ArchiveVesselToLog_Active(vessel, reason) ==
    [mmsi |-> vessel.mmsi, latitude |-> vessel.latitude,
     longitude |-> vessel.longitude, timestamp |-> vessel.timestamp,
     name |-> vessel.name, archiveReason |-> reason, status |-> "active"]

\* archiveVesselToLog: the log document created from a current document
ArchiveVesselToLog(vessel, reason) ==
    [mmsi |-> vessel.mmsi, latitude |-> vessel.latitude,
     longitude |-> vessel.longitude, timestamp |-> vessel.timestamp,
     name |-> vessel.name, archiveReason |-> reason, status |-> "archived"]


-----------------------------------------------------------------------------
(* AisDataService.updateCurrentVesselData: one step per awaited storage call *)

IdleCall ==
    [pc |-> "idle", op |-> "none", list |-> <<>>, i |-> 0, existing |-> NoRow,
     archivedCount |-> 0, newCurrentCount |-> 0, errors |-> <<>>, known0 |-> {},
     logged0 |-> 0]

Returned(c) == c.pc \in {"idle", "done", "threw"}

\* the loop header: the next report, or the result is built and returned
\* (logged0, history: the length of the log when the loop reaches the report)
NextVessel(c) ==
    [c EXCEPT !.i = c.i + 1,
              !.existing = NoRow,
              !.logged0 = Len(logs),
              !.pc = IF c.i + 1 > Len(c.list) THEN "done" ELSE "find"]

CatchError_Silent(c) == NextVessel(c)

\* catch (error) { errors.push(`Failed to process vessel ${mmsi}: ...`) }
CatchError(c) ==
    NextVessel([c EXCEPT !.errors = Append(c.errors, c.list[c.i].mmsi)])

ArchivedCountInc_Forgotten(c) == c.archivedCount

\* archivedCount++
ArchivedCountInc(c) == c.archivedCount + 1

NextUpdateCount_Kept(existing) ==
    IF existing # NoRow THEN existing.updateCount ELSE 1

\* updateCount: existingVessel ? existingVessel.updateCount + 1 : 1
NextUpdateCount(existing) ==
    IF existing # NoRow THEN existing.updateCount + 1 ELSE 1

\* the call: the counters are initialised and the loop reaches its first report
UpdateCurrentVesselData(p, list) ==
    /\ Returned(call[p])
    /\ used + Len(list) <= MaxReports
    /\ used' = used + Len(list)
    /\ call' = [call EXCEPT ![p] =
                  [pc |-> IF list = <<>> THEN "done" ELSE "find",
                   op |-> "update", list |-> list, i |-> 1, existing |-> NoRow,
                   archivedCount |-> 0, newCurrentCount |-> 0, errors |-> <<>>,
                   known0 |-> {current[k].mmsi : k \in DOMAIN current},
                   logged0 |-> Len(logs)]]
    /\ UNCHANGED <<current, logs, succ, hist, clean>>

\* await this.currentVesselModel.findOne({ mmsi: vesselData.mmsi })
LookupExisting(p) ==
    /\ call[p].pc = "find"
    /\ LET c   == call[p]
           rep == c.list[c.i]
           found == FindOne(current, rep.mmsi)
       IN  \E ok \in BOOLEAN :
             IF ok
             THEN /\ call' = [call EXCEPT ![p].existing = found,
                                          ![p].pc = IF found # NoRow THEN "archive"
                                                    ELSE "upsert"]
                  /\ UNCHANGED clean
             ELSE /\ call' = [call EXCEPT ![p] = CatchError(c)]
                  /\ clean' = [clean EXCEPT ![rep.mmsi] = FALSE]
    /\ UNCHANGED <<current, logs, used, succ, hist>>

\* await this.archiveVesselToLog(existingVessel, 'scheduled_update'); archivedCount++
ArchiveExisting(p) ==
    /\ call[p].pc = "archive"
    /\ LET c   == call[p]
           rep == c.list[c.i]
       IN  \E ok \in BOOLEAN :
             IF ok
             THEN /\ logs' = Append(logs, ArchiveVesselToLog(c.existing, "scheduled_update"))
                  /\ call' = [call EXCEPT ![p].archivedCount = ArchivedCountInc(c),
                                          ![p].pc = "upsert"]
                  /\ UNCHANGED clean
             ELSE /\ call' = [call EXCEPT ![p] = CatchError(c)]
                  /\ clean' = [clean EXCEPT ![rep.mmsi] = FALSE]
                  /\ UNCHANGED logs
    /\ UNCHANGED <<current, used, succ, hist>>

\* await this.currentVesselModel.findOneAndUpdate(...); newCurrentCount++
UpsertCurrent(p) ==
    /\ call[p].pc = "upsert"
    /\ LET c   == call[p]
           rep == c.list[c.i]
       IN  \E ok \in BOOLEAN :
             IF ok
             THEN /\ current' = FindOneAndUpdate(current, rep, NextUpdateCount(c.existing))
                  /\ call' = [call EXCEPT ![p] =
                                NextVessel([c EXCEPT !.newCurrentCount = c.newCurrentCount + 1])]
                  /\ succ' = [succ EXCEPT ![rep.mmsi] = @ + 1]
                  /\ hist' = [hist EXCEPT ![rep.mmsi] = Append(@, rep)]
                  /\ UNCHANGED clean
             ELSE /\ call' = [call EXCEPT ![p] = CatchError(c)]
                  /\ clean' = [clean EXCEPT ![rep.mmsi] = FALSE]
                  /\ UNCHANGED <<current, succ, hist>>
    /\ UNCHANGED <<logs, used>>

-----------------------------------------------------------------------------
(* AisDataService.bulkUpsertVessels: one bulkWrite, ordered: false *)

Perms(n) == {f \in [1..n -> 1..n] : \A a, b \in 1..n : f[a] = f[b] => a = b}

UpdateOneUpsert_NoInc(coll, rep) ==
    IF Indices(coll, rep.mmsi) = {}
    THEN Append(coll, SetFields(EmptyDoc(rep.mmsi), rep, 1))
    ELSE LET i == MinOf(Indices(coll, rep.mmsi))
         IN  [coll EXCEPT ![i] = SetFields(coll[i], rep, coll[i].updateCount)]

\* updateOne: { filter: { mmsi }, update: { $set: {...}, $inc: { updateCount: 1 } }, upsert: true }
UpdateOneUpsert(coll, rep) ==
    IF Indices(coll, rep.mmsi) = {}
    THEN Append(coll, SetFields(EmptyDoc(rep.mmsi), rep, 1))
    ELSE LET i == MinOf(Indices(coll, rep.mmsi))
         IN  [coll EXCEPT ![i] = SetFields(coll[i], rep, coll[i].updateCount + 1)]

\* bulkWrite(ops, { ordered: false }): the server applies the operations in some
\* order; an operation that fails is skipped and the others are still applied
RECURSIVE BulkWrite(_, _, _, _, _)
BulkWrite(coll, list, order, failed, k) ==
    IF k > Len(list) THEN coll
    ELSE BulkWrite(IF order[k] \in failed THEN coll
                   ELSE UpdateOneUpsert(coll, list[order[k]]),
                   list, order, failed, k + 1)

BulkUpsertVessels_Archiving(p, list, order, failed) ==
    /\ Returned(call[p])
    /\ used + Len(list) <= MaxReports
    /\ used' = used + Len(list)
    /\ current' = BulkWrite(current, list, order, failed, 1)
    /\ LET overwritten == SelectSeq(current,
                            LAMBDA row : \E k \in DOMAIN list : list[k].mmsi = row.mmsi)
       IN  /\ logs' = logs \o [k \in DOMAIN overwritten |->
                                 ArchiveVesselToLog(overwritten[k], "scheduled_update")]
           /\ call' = [call EXCEPT ![p] =
                         [pc |-> IF failed = {} THEN "done" ELSE "threw",
                          op |-> "bulk", list |-> list, i |-> Len(list) + 1,
                          existing |-> NoRow,
                          archivedCount |-> Len(overwritten),
                          newCurrentCount |-> Len(list) - Cardinality(failed),
                          errors |-> <<>>,
                          known0 |-> {current[k].mmsi : k \in DOMAIN current},
                   logged0 |-> Len(logs)]]
    /\ succ' = [m \in MMSIs |->
                  succ[m] + Cardinality({k \in DOMAIN list \ failed : list[k].mmsi = m})]
    /\ clean' = [m \in MMSIs |->
                  clean[m] /\ ~(\E k \in DOMAIN list : list[k].mmsi = m)]
    /\ UNCHANGED hist

\* The whole call.  When an operation failed, bulkWrite rejects once all are
\* done, and the method logs and rethrows: no result is returned.
BulkUpsertVessels(p, list, order, failed) ==
    /\ Returned(call[p])
    /\ used + Len(list) <= MaxReports
    /\ used' = used + Len(list)
    /\ current' = BulkWrite(current, list, order, failed, 1)
    /\ call' = [call EXCEPT ![p] =
                  [pc |-> IF failed = {} THEN "done" ELSE "threw",
                   op |-> "bulk", list |-> list, i |-> Len(list) + 1, existing |-> NoRow,
                   archivedCount |-> 0,
                   newCurrentCount |-> Len(list) - Cardinality(failed),
                   errors |-> <<>>,
                   known0 |-> {current[k].mmsi : k \in DOMAIN current},
                   logged0 |-> Len(logs)]]
    /\ succ' = [m \in MMSIs |->
                  succ[m] + Cardinality({k \in DOMAIN list \ failed : list[k].mmsi = m})]
    /\ clean' = [m \in MMSIs |->
                  clean[m] /\ ~(\E k \in DOMAIN list : list[k].mmsi = m)]
    /\ UNCHANGED <<logs, hist>>

-----------------------------------------------------------------------------
(* TelkomsatClientService: processing of an upstream page *)

\* A field of an upstream record: absent (undefined or null), or a string, held
\* as the sequence of its characters.
Absent == [given |-> FALSE, text |-> <<>>]

Text(chars) == [given |-> TRUE, text |-> chars]

\* a number as JavaScript has it: NaN, or a value (here in tenths)
NaN == [nan |-> TRUE, value |-> 0]

Number(v) == [nan |-> FALSE, value |-> v]

IsDigit(ch) == ch \in {"0", "1", "2", "3", "4", "5", "6", "7", "8", "9"}

DigitValue(ch) ==
    CASE ch = "0" -> 0 [] ch = "1" -> 1 [] ch = "2" -> 2 [] ch = "3" -> 3
      [] ch = "4" -> 4 [] ch = "5" -> 5 [] ch = "6" -> 6 [] ch = "7" -> 7
      [] ch = "8" -> 8 [] ch = "9" -> 9

\* the number of digits of text that follow position from - 1 without a gap
DigitRun(text, from) ==
    Cardinality({k \in from..Len(text) : \A j \in from..k : IsDigit(text[j])})

RECURSIVE DigitsValue(_, _, _)
DigitsValue(text, lo, hi) ==
    IF lo > hi THEN 0
    ELSE 10 * DigitsValue(text, lo, hi - 1) + DigitValue(text[hi])

SignLength(text) == IF text # <<>> /\ text[1] \in {"-", "+"} THEN 1 ELSE 0

Signed(text, v) == IF text # <<>> /\ text[1] = "-" THEN -v ELSE v

\* parseInt(text, 10), in tenths: an optional sign and the digits that follow
\* it; what comes after them is ignored; NaN without a digit
ParseInt(text) ==
    LET first == SignLength(text) + 1
        n     == DigitRun(text, first)
    IN  IF n = 0 THEN NaN
        ELSE Number(Signed(text, 10 * DigitsValue(text, first, first + n - 1)))

\* parseFloat(text), in tenths: an optional sign, digits, and an optional
\* point with a digit (the texts of the model carry at most one decimal)
ParseFloat(text) ==
    LET first   == SignLength(text) + 1
        n       == DigitRun(text, first)
        point   == first + n
        decimal == IF point < Len(text) /\ text[point] = "." /\ IsDigit(text[point + 1])
                   THEN DigitValue(text[point + 1]) ELSE 0
        any     == n > 0 \/ (point < Len(text) /\ text[point] = "."
                               /\ IsDigit(text[point + 1]))
    IN  IF ~any THEN NaN
        ELSE Number(Signed(text, 10 * DigitsValue(text, first, first + n - 1) + decimal))

\* the first filter: tv && tv.mmsi && tv.mmsi !== '' && tv.lat && ... (a
\* string is truthy when it is not empty)
Truthy(f) == f.given /\ f.text # <<>>

PassesFirstFilter(tv) ==
    tv.present /\ Truthy(tv.mmsi) /\ Truthy(tv.lat) /\ Truthy(tv.lon)

\* the map: the ProcessedVessel of a record (numbers in tenths)
ToProcessedVessel(tv) ==
    [mmsi |-> ParseInt(tv.mmsi.text), latitude |-> ParseFloat(tv.lat.text),
     longitude |-> ParseFloat(tv.lon.text)]

PassesLastFilter_NoLatitudeRange(vessel) ==
    /\ ~vessel.mmsi.nan /\ ~vessel.latitude.nan /\ ~vessel.longitude.nan
    /\ vessel.longitude.value >= -1800 /\ vessel.longitude.value <= 1800
    /\ vessel.mmsi.value > 0

\* the last filter: numbers, inside the ranges, mmsi > 0
PassesLastFilter(vessel) ==
    /\ ~vessel.mmsi.nan /\ ~vessel.latitude.nan /\ ~vessel.longitude.nan
    /\ vessel.latitude.value >= -900 /\ vessel.latitude.value <= 900
    /\ vessel.longitude.value >= -1800 /\ vessel.longitude.value <= 1800
    /\ vessel.mmsi.value > 0

MapAll(list) == [k \in DOMAIN list |-> ToProcessedVessel(list[k])]

\* processTelkomsatVessels: filter, map, filter
ProcessTelkomsatVessels(telkomsatVessels) ==
    SelectSeq(MapAll(SelectSeq(telkomsatVessels, PassesFirstFilter)), PassesLastFilter)

-----------------------------------------------------------------------------
(* TelkomsatClientService: deduplication *)

\* ProcessedVessel.timestamp is the string `${date} ${time}` (parseDateTime);
\* `>` on two such strings compares them character by character, which for
\* fixed-width fields is: by date, then by time.
TsGreater(a, b) == a[1] > b[1] \/ (a[1] = b[1] /\ a[2] > b[2])

IsNewer_Older(vessel, existing) == TsGreater(existing.timestamp, vessel.timestamp)

\* vessel.timestamp > existing.timestamp
IsNewer(vessel, existing) == TsGreater(vessel.timestamp, existing.timestamp)

\* Map.get(mmsi): the position of the entry in the map's insertion order, 0 if none
MapIndex(map, m) ==
    IF Indices(map, m) = {} THEN 0 ELSE MinOf(Indices(map, m))

\* Map.set(mmsi, vessel): a new key goes last, a known key keeps its place
MapSet(map, vessel) ==
    IF MapIndex(map, vessel.mmsi) = 0 THEN Append(map, vessel)
    ELSE [map EXCEPT ![MapIndex(map, vessel.mmsi)] = vessel]

RECURSIVE DeduplicateFrom(_, _, _)
DeduplicateFrom(map, vessels, k) ==
    IF k > Len(vessels) THEN map
    ELSE LET vessel == vessels[k]
             at     == MapIndex(map, vessel.mmsi)
             next   == IF ~(vessel.mmsi > 0) THEN map
                       ELSE IF at = 0 THEN MapSet(map, vessel)
                       ELSE IF IsNewer(vessel, map[at]) THEN MapSet(map, vessel)
                       ELSE map
         IN  DeduplicateFrom(next, vessels, k + 1)

\* deduplicateVessels: Array.from(vesselMap.values())
DeduplicateVessels(vessels) ==
    IF vessels = <<>> THEN <<>> ELSE DeduplicateFrom(<<>>, vessels, 1)

RECURSIVE MergeFrom(_, _, _)
MergeFrom(map, vessels, k) ==
    IF k > Len(vessels) THEN map
    ELSE LET vessel == vessels[k]
             at     == MapIndex(map, vessel.mmsi)
             next   == IF at = 0 \/ IsNewer(vessel, map[at])
                       THEN MapSet(map, vessel) ELSE map
         IN  MergeFrom(next, vessels, k + 1)

\* forceAggressiveCollection: the merge of the five batches by mmsi
MergeAggressive(allVessels) == MergeFrom(<<>>, allVessels, 1)

-----------------------------------------------------------------------------
(* TelkomsatClientService.collectVesselsMassively and the collector *)

\* the reports a fetch can yield (ProcessedVessel, after processTelkomsatVessels)
Vessels ==
    [mmsi : MMSIs, latitude : {1}, longitude : {104},
     timestamp : ReportStamps, name : {Unset}]

\* fallbacks: the minimal requests (page 1, limit 10) issued so far; seen: the
\* MMSIs the fulfilled pages delivered so far; failed: the rejected pages
\* among 2-4
IdleCollection ==
    [pc |-> "idle", kind |-> "none", all |-> <<>>, settled |-> 0,
     massive |-> <<>>, fetched |-> 0,
     collected |-> 0, stored |-> 0, error |-> "none",
     fallbacks |-> 0, seen |-> {}, failed |-> 0]

\* what one fetchVesselsFromTelkomsat call of caller c settles to: a page of
\* reports, or a rejection
PageResults(c) ==
    {[ok |-> FALSE, data |-> <<>>]} \cup
    {[ok |-> TRUE, data |-> page] :
       page \in UNION {[1..n -> Vessels] :
                         n \in 0..(MaxFetched - collection[c].fetched)}}

\* the collector's gateway is injected
HasGateway == TRUE

InFlight(c) ==
    collection[c].pc \in {"page1", "fallbackTry", "fallbackCatch", "pages",
                          "others", "store", "broadcast"}

\* vessels.map(vessel => ({ mmsi: vessel.mmsi, ... })): the DTO of each report
ToDTOs(vessels) ==
    [k \in DOMAIN vessels |->
       [mmsi |-> vessels[k].mmsi, latitude |-> vessels[k].latitude,
        longitude |-> vessels[k].longitude, timestamp |-> vessels[k].timestamp,
        name |-> vessels[k].name]]

\* updateCurrentVesselData(list) as called by the collector: the call's locals
StartUpdate(list) ==
    [pc |-> IF list = <<>> THEN "done" ELSE "find",
     op |-> "update", list |-> list, i |-> 1, existing |-> NoRow,
     archivedCount |-> 0, newCurrentCount |-> 0, errors |-> <<>>,
     known0 |-> {current[k].mmsi : k \in DOMAIN current},
     logged0 |-> Len(logs)]

Fulfilled_Discarded(res) == <<>>

\* the page of a settled fetch that counts: a fulfilled one
Fulfilled(res) == IF res.ok THEN res.data ELSE <<>>

\* the MMSIs a settled fetch delivered, and whether it was rejected
PageMmsis(res) == IF res.ok THEN {res.data[k].mmsi : k \in DOMAIN res.data} ELSE {}

Rejected(res) == IF res.ok THEN 0 ELSE 1

ReturnResult_FlagKept(c, collected, stored) ==
    /\ collection' = [collection EXCEPT ![c] =
                        [IdleCollection EXCEPT !.pc = "returned",
                                               !.kind = collection[c].kind,
                                               !.collected = collected,
                                               !.stored = stored]]
    /\ UNCHANGED isCollecting

\* the return value is built; finally { this.isCollecting = false }
ReturnResult(c, collected, stored) ==
    /\ collection' = [collection EXCEPT ![c] =
                        [IdleCollection EXCEPT !.pc = "returned",
                                               !.kind = collection[c].kind,
                                               !.collected = collected,
                                               !.stored = stored]]
    /\ isCollecting' = FALSE

\* forceAggressiveCollection after Promise.allSettled: the batches are merged
\* and handed to updateCurrentVesselData
StoreAggressive(c, allVessels) ==
    /\ collection' = [collection EXCEPT ![c].pc = "store",
                                        ![c].all = <<>>,
                                        ![c].massive = MergeAggressive(allVessels),
                                        ![c].collected = Len(allVessels)]
    /\ call' = [call EXCEPT ![c] = StartUpdate(ToDTOs(MergeAggressive(allVessels)))]
    /\ UNCHANGED isCollecting

MassiveReturned_FlagKeptWhenEmpty(c, vessels, res) ==
    IF collection[c].kind = "collect"
    THEN IF vessels = <<>>
         THEN /\ ReturnResult_FlagKept(c, 0, 0)
              /\ UNCHANGED call
         ELSE /\ collection' = [collection EXCEPT ![c].pc = "store",
                                                  ![c].all = <<>>,
                                                  ![c].massive = vessels,
                                                  ![c].seen = @ \cup PageMmsis(res),
                                                  ![c].failed = @ + Rejected(res)]
              /\ call' = [call EXCEPT ![c] = StartUpdate(ToDTOs(vessels))]
              /\ UNCHANGED isCollecting
    ELSE /\ collection' = [collection EXCEPT ![c].pc = "others",
                                             ![c].all = vessels,
                                             ![c].settled = 0,
                                             ![c].fetched = @ + Len(Fulfilled(res)),
                                             ![c].seen = @ \cup PageMmsis(res),
                                             ![c].failed = @ + Rejected(res)]
         /\ UNCHANGED <<call, isCollecting>>

\* collectVesselsMassively has returned `vessels` to its caller; res is the
\* fetch that settled last
MassiveReturned(c, vessels, res) ==
    IF collection[c].kind = "collect"
    THEN IF vessels = <<>>
         THEN /\ ReturnResult(c, 0, 0)
              /\ UNCHANGED call
         ELSE /\ collection' = [collection EXCEPT ![c].pc = "store",
                                                  ![c].all = <<>>,
                                                  ![c].massive = vessels,
                                                  ![c].seen = @ \cup PageMmsis(res),
                                                  ![c].failed = @ + Rejected(res)]
              /\ call' = [call EXCEPT ![c] = StartUpdate(ToDTOs(vessels))]
              /\ UNCHANGED isCollecting
    ELSE /\ collection' = [collection EXCEPT ![c].pc = "others",
                                             ![c].all = vessels,
                                             ![c].settled = 0,
                                             ![c].fetched = @ + Len(Fulfilled(res)),
                                             ![c].seen = @ \cup PageMmsis(res),
                                             ![c].failed = @ + Rejected(res)]
         /\ UNCHANGED <<call, isCollecting>>

CollectAndStoreVessels_GuardInTry(c) ==
    /\ ~InFlight(c)
    /\ IF isCollecting
       THEN /\ collection' = [collection EXCEPT ![c] =
                                [IdleCollection EXCEPT
                                   !.pc = "rejected", !.kind = "collect",
                                   !.error = "Collection already in progress"]]
            /\ isCollecting' = FALSE
            /\ UNCHANGED <<requestCount, started, sched>>
       ELSE /\ started < MaxCollections
            /\ started' = started + 1
            /\ UNCHANGED sched
            /\ isCollecting' = TRUE
            /\ requestCount' = requestCount + 1
            /\ collection' = [collection EXCEPT ![c] =
                                [IdleCollection EXCEPT !.pc = "page1",
                                                       !.kind = "collect"]]
    /\ UNCHANGED storeVars

\* collectAndStoreVessels up to its first await: the guard, the flag, and the
\* first request of collectVesselsMassively (page 1, limit 100)
CollectAndStoreVessels(c) ==
    /\ ~InFlight(c)
    /\ IF isCollecting
       THEN /\ collection' = [collection EXCEPT ![c] =
                                [IdleCollection EXCEPT
                                   !.pc = "rejected", !.kind = "collect",
                                   !.error = "Collection already in progress"]]
            /\ UNCHANGED <<isCollecting, requestCount, started, sched>>
       ELSE /\ started < MaxCollections
            /\ started' = started + 1
            /\ UNCHANGED sched
            /\ isCollecting' = TRUE
            /\ requestCount' = requestCount + 1
            /\ collection' = [collection EXCEPT ![c] =
                                [IdleCollection EXCEPT !.pc = "page1",
                                                       !.kind = "collect"]]
    /\ UNCHANGED storeVars

\* forceAggressiveCollection up to its first await: the guard, the flag, and
\* the five requests of Promise.allSettled (page 1 of collectVesselsMassively
\* and four paged fetches)
ForceAggressiveCollection(c) ==
    /\ ~InFlight(c)
    /\ IF isCollecting
       THEN /\ collection' = [collection EXCEPT ![c] =
                                [IdleCollection EXCEPT
                                   !.pc = "rejected", !.kind = "aggressive",
                                   !.error = "Collection already in progress"]]
            /\ UNCHANGED <<isCollecting, requestCount, started, sched>>
       ELSE /\ started < MaxCollections
            /\ started' = started + 1
            /\ UNCHANGED sched
            /\ isCollecting' = TRUE
            /\ requestCount' = requestCount + 5
            /\ collection' = [collection EXCEPT ![c] =
                                [IdleCollection EXCEPT !.pc = "page1",
                                                       !.kind = "aggressive"]]
    /\ UNCHANGED storeVars

\* collectVesselsMassively: the page-1 request has settled
Page1Settled(c, res) ==
    /\ collection[c].pc = "page1"
    /\ IF ~res.ok
       THEN \* catch: the minimal request (limit 10)
            /\ collection' = [collection EXCEPT ![c].pc = "fallbackCatch",
                                                ![c].fallbacks = @ + 1]
            /\ requestCount' = requestCount + 1
       ELSE IF res.data = <<>>
       THEN \* inside the try: the minimal request (limit 10)
            /\ collection' = [collection EXCEPT ![c].pc = "fallbackTry",
                                                ![c].fallbacks = @ + 1]
            /\ requestCount' = requestCount + 1
       ELSE \* pages 2, 3 and 4 are requested together
            /\ collection' = [collection EXCEPT ![c].pc = "pages",
                                                ![c].all = res.data,
                                                ![c].settled = 0,
                                                ![c].fetched = @ + Len(res.data),
                                                ![c].seen = PageMmsis(res)]
            /\ requestCount' = requestCount + 3
    /\ UNCHANGED <<storeVars, isCollecting, started, sched>>

\* collectVesselsMassively: a minimal request has settled
FallbackSettled(c, res) ==
    /\ collection[c].pc \in {"fallbackTry", "fallbackCatch"}
    /\ IF ~res.ok /\ collection[c].pc = "fallbackTry"
       THEN \* the rejection is thrown inside the try: the catch requests again
            /\ collection' = [collection EXCEPT ![c].pc = "fallbackCatch",
                                                ![c].fallbacks = @ + 1]
            /\ requestCount' = requestCount + 1
            /\ UNCHANGED <<call, isCollecting>>
       ELSE /\ MassiveReturned(c, Fulfilled(res), res)
            /\ UNCHANGED requestCount
    /\ UNCHANGED <<current, logs, used, succ, hist, clean, started, sched>>

\* collectVesselsMassively: one of pages 2-4 has settled; Promise.allSettled
\* resolves with the third, and the pages are appended in page order
PageSettled(c, res) ==
    /\ collection[c].pc = "pages"
    /\ LET allVessels == collection[c].all \o Fulfilled(res)
       IN  IF collection[c].settled + 1 < 3
           THEN /\ collection' = [collection EXCEPT ![c].all = allVessels,
                                                    ![c].settled = @ + 1,
                                                    ![c].fetched = @ + Len(Fulfilled(res)),
                                                    ![c].seen = @ \cup PageMmsis(res),
                                                    ![c].failed = @ + Rejected(res)]
                /\ UNCHANGED <<call, isCollecting>>
           ELSE MassiveReturned(c, DeduplicateVessels(allVessels), res)
    /\ UNCHANGED <<current, logs, used, succ, hist, clean, requestCount, started, sched>>

\* forceAggressiveCollection: one of the four paged fetches has settled;
\* Promise.allSettled resolves with the fourth
OtherSettled(c, res) ==
    /\ collection[c].pc = "others"
    /\ LET allVessels == collection[c].all \o Fulfilled(res)
       IN  IF collection[c].settled + 1 < 4
           THEN /\ collection' = [collection EXCEPT ![c].all = allVessels,
                                                    ![c].settled = @ + 1,
                                                    ![c].fetched = @ + Len(Fulfilled(res))]
                /\ UNCHANGED <<call, isCollecting>>
           ELSE StoreAggressive(c, allVessels)
    /\ UNCHANGED <<current, logs, used, succ, hist, clean, requestCount, started, sched>>

\* updateCurrentVesselData has returned its result to the collector
StoreReturned(c) ==
    /\ collection[c].pc = "store"
    /\ call[c].pc = "done"
    /\ IF collection[c].kind = "aggressive" /\ HasGateway
          /\ Len(collection[c].massive) > 0
       THEN \* await this.broadcastLatestData(uniqueVessels.length)
            /\ collection' = [collection EXCEPT ![c].pc = "broadcast",
                                                ![c].stored = call[c].newCurrentCount]
            /\ UNCHANGED isCollecting
       ELSE ReturnResult(c, IF collection[c].kind = "aggressive"
                            THEN collection[c].collected
                            ELSE Len(collection[c].massive),
                         call[c].newCurrentCount)
    /\ call' = [call EXCEPT ![c] = IdleCall]
    /\ UNCHANGED <<current, logs, used, succ, hist, clean, requestCount, started, sched>>

\* forceAggressiveCollection: the broadcast is over; return, finally
BroadcastDone(c) ==
    /\ collection[c].pc = "broadcast"
    /\ ReturnResult(c, collection[c].collected, collection[c].stored)
    /\ UNCHANGED <<storeVars, requestCount, started, sched>>

-----------------------------------------------------------------------------
(* AisDataService.getVesselPlaybackData *)

\* transformVesselLogForExport(log, 'track'): the point exported for a document
TransformVesselLogForExport(vessel) ==
    [mmsi      |-> vessel.mmsi,
     name      |-> IF vessel.name = Unset THEN "Unknown" ELSE vessel.name,
     latitude  |-> vessel.latitude,
     longitude |-> vessel.longitude,
     timestamp |-> vessel.timestamp,
     status    |-> vessel.status]

PlaybackQuery_AnyStatus(log, mmsi, startDate, endDate) ==
    /\ log.mmsi = mmsi
    /\ log.timestamp >= NewDate(startDate)
    /\ log.timestamp <= NewDate(endDate)

\* { mmsi, timestamp: { $gte: new Date(startDate), $lte: new Date(endDate) },
\*   status: 'archived' }
PlaybackQuery(log, mmsi, startDate, endDate) ==
    /\ log.mmsi = mmsi
    /\ log.timestamp >= NewDate(startDate)
    /\ log.timestamp <= NewDate(endDate)
    /\ log.status = "archived"

RECURSIVE InsertByTimestamp(_, _)
InsertByTimestamp(sorted, doc) ==
    IF sorted = <<>> THEN <<doc>>
    ELSE IF doc.timestamp < Head(sorted).timestamp THEN <<doc>> \o sorted
    ELSE <<Head(sorted)>> \o InsertByTimestamp(Tail(sorted), doc)

RECURSIVE SortByTimestamp(_)
\* .sort({ timestamp: 1 })
SortByTimestamp(docs) ==
    IF docs = <<>> THEN <<>>
    ELSE InsertByTimestamp(SortByTimestamp(SubSeq(docs, 1, Len(docs) - 1)),
                           docs[Len(docs)])

\* vesselLogModel.find(query).sort({ timestamp: 1 })
FindPlaybackLogs(mmsi, startDate, endDate) ==
    SortByTimestamp(SelectSeq(logs,
        LAMBDA log : PlaybackQuery(log, mmsi, startDate, endDate)))

KeepPoint_Strict(timeDiff, intervalMinutes, sampledLogs) ==
    timeDiff > intervalMinutes \/ Len(sampledLogs) = 0

\* timeDiff >= intervalMinutes || sampledLogs.length === 0
KeepPoint(timeDiff, intervalMinutes, sampledLogs) ==
    timeDiff >= intervalMinutes \/ Len(sampledLogs) = 0

RECURSIVE SampleFrom(_, _, _, _, _)
\* logs.forEach(log => { ... }) with the locals sampledLogs and lastTime;
\* instants are counted in minutes, so timeDiff is currentTime - lastTime
SampleFrom(found, k, sampledLogs, lastTime, intervalMinutes) ==
    IF k > Len(found) THEN sampledLogs
    ELSE LET currentTime == found[k].timestamp
             timeDiff    == currentTime - lastTime
         IN  IF KeepPoint(timeDiff, intervalMinutes, sampledLogs)
             THEN SampleFrom(found, k + 1,
                             Append(sampledLogs, TransformVesselLogForExport(found[k])),
                             currentTime, intervalMinutes)
             ELSE SampleFrom(found, k + 1, sampledLogs, lastTime, intervalMinutes)

\* the value getVesselPlaybackData resolves to
PlaybackData(mmsi, startDate, endDate, intervalMinutes) ==
    LET found == FindPlaybackLogs(mmsi, startDate, endDate)
    IN  IF intervalMinutes <= 1
        THEN [k \in DOMAIN found |-> TransformVesselLogForExport(found[k])]
        ELSE SampleFrom(found, 1, <<>>, 0, intervalMinutes)

\* getVesselPlaybackData: the query is awaited, then the points are sampled;
\* a rejected query rejects the call
GetVesselPlaybackData(mmsi, startDate, endDate, intervalMinutes, ok) ==
    /\ pb.pc = "ready"
    /\ pb' = [pc |-> IF ok THEN "returned" ELSE "threw",
              mmsi |-> mmsi, startDate |-> startDate, endDate |-> endDate,
              intervalMinutes |-> intervalMinutes,
              output |-> IF ok
                         THEN PlaybackData(mmsi, startDate, endDate, intervalMinutes)
                         ELSE <<>>]
    /\ UNCHANGED <<storeVars, collVars, dd, poi, fleet, gw, processing, retention>>

-----------------------------------------------------------------------------
(* AisDataController / AisDataService: the POI-area endpoints *)

\* pageSize of the POI-area pages
PageSize == 100

\* the auto-fetch-all endpoint refuses larger result sets
MaxAutoFetch == 50000

\* validatePOIAreaQuery: the largest bounding box, in km2
MaxAreaKm2 == 1000000

\* kilometres per degree of longitude (at the equator) and of latitude, times 100
LonKmE2 == 11132

LatKmE2 == 11054

Abs(x) == IF x < 0 THEN -x ELSE x

\* Math.cos(mean * Math.PI / 180) times 10^4, for mean = twice / 2 degrees:
\* Bhaskara's rational approximation (within 0.002 of the cosine on [-90, 90])
CosE4(twice) == (40000 * (32400 - twice * twice)) \div (129600 + twice * twice)

\* calculateBoundingBoxSize, in whole km2
CalculateBoundingBoxSize(bounds) ==
    LET lonDiff == Abs(bounds.maxLongitude - bounds.minLongitude)
        latDiff == Abs(bounds.maxLatitude - bounds.minLatitude)
        lonKm   == (((lonDiff * LonKmE2) \div 100)
                      * CosE4(bounds.minLatitude + bounds.maxLatitude)) \div 10000
        latKm   == (latDiff * LatKmE2) \div 100
    IN  lonKm * latKm

\* a date of a query: <<>> when the parameter is absent, else <<date>>
GivenDate(d) == d # <<>>

\* new Date(startDate) of a date-only string: midnight of that date
DateOf(d) == NewDate(<<d[1], 0>>)

ValidatePOIAreaQuery_NoAreaLimit(query) ==
    IF query.minLongitude >= query.maxLongitude
    THEN "minLongitude must be less than maxLongitude"
    ELSE IF query.minLatitude >= query.maxLatitude
    THEN "minLatitude must be less than maxLatitude"
    ELSE IF query.minLongitude < -180 \/ query.maxLongitude > 180
    THEN "Longitude must be between -180 and 180"
    ELSE IF query.minLatitude < -90 \/ query.maxLatitude > 90
    THEN "Latitude must be between -90 and 90"
    ELSE IF GivenDate(query.startDate) /\ GivenDate(query.endDate)
            /\ DateOf(query.startDate) >= DateOf(query.endDate)
    THEN "startDate must be before endDate"
    ELSE "valid"

ValidatePOIAreaQuery_EqualAllowed(query) ==
    IF query.minLongitude > query.maxLongitude
    THEN "minLongitude must be less than maxLongitude"
    ELSE IF query.minLatitude > query.maxLatitude
    THEN "minLatitude must be less than maxLatitude"
    ELSE IF query.minLongitude < -180 \/ query.maxLongitude > 180
    THEN "Longitude must be between -180 and 180"
    ELSE IF query.minLatitude < -90 \/ query.maxLatitude > 90
    THEN "Latitude must be between -90 and 90"
    ELSE IF GivenDate(query.startDate) /\ GivenDate(query.endDate)
            /\ DateOf(query.startDate) > DateOf(query.endDate)
    THEN "startDate must be before endDate"
    ELSE IF CalculateBoundingBoxSize(query) > MaxAreaKm2
    THEN "Search area too large"
    ELSE "valid"

\* validatePOIAreaQuery: the message of the exception it throws, or "valid"
ValidatePOIAreaQuery(query) ==
    IF query.minLongitude >= query.maxLongitude
    THEN "minLongitude must be less than maxLongitude"
    ELSE IF query.minLatitude >= query.maxLatitude
    THEN "minLatitude must be less than maxLatitude"
    ELSE IF query.minLongitude < -180 \/ query.maxLongitude > 180
    THEN "Longitude must be between -180 and 180"
    ELSE IF query.minLatitude < -90 \/ query.maxLatitude > 90
    THEN "Latitude must be between -90 and 90"
    ELSE IF GivenDate(query.startDate) /\ GivenDate(query.endDate)
            /\ DateOf(query.startDate) >= DateOf(query.endDate)
    THEN "startDate must be before endDate"
    ELSE IF CalculateBoundingBoxSize(query) > MaxAreaKm2
    THEN "Search area too large"
    ELSE "valid"

\* the validation pipe on QueryPOIAreaDto: @Min / @Max on the four bounds and
\* @Min(1) on page (POIAreaCountDto carries no such constraint)
ValidateQueryPOIAreaDto(query) ==
    /\ query.minLongitude >= -180 /\ query.minLongitude <= 180
    /\ query.maxLongitude >= -180 /\ query.maxLongitude <= 180
    /\ query.minLatitude >= -90 /\ query.minLatitude <= 90
    /\ query.maxLatitude >= -90 /\ query.maxLatitude <= 90
    /\ query.page >= 1

\* buildGeoQuery throws when a bound is falsy
GeoQueryThrows(query) ==
    \/ query.minLongitude = 0 \/ query.maxLongitude = 0
    \/ query.minLatitude = 0 \/ query.maxLatitude = 0

\* the filter buildGeoQuery returns, applied to one document
GeoQuery(doc, query) ==
    /\ doc.longitude >= query.minLongitude /\ doc.longitude <= query.maxLongitude
    /\ doc.latitude >= query.minLatitude /\ doc.latitude <= query.maxLatitude
    /\ GivenDate(query.startDate) => doc.timestamp >= DateOf(query.startDate)
    /\ GivenDate(query.endDate) => doc.timestamp <= DateOf(query.endDate)

\* the current row an upsert at instant t leaves (lastUpdated: new Date()), and
\* the log entry archiveVesselToLog writes at instant t (archivedAt: new Date())
RowAt(rep, count, t) ==
    SetFields(EmptyDoc(rep.mmsi), rep, count) @@ [lastUpdated |-> t]

EntryAt(vessel, reason, t) ==
    ArchiveVesselToLog(vessel, reason) @@ [archivedAt |-> t]

CurrentInArea(query) == SelectSeq(current, LAMBDA doc : GeoQuery(doc, query))

ArchivedInArea(query) ==
    SelectSeq(logs, LAMBDA doc : GeoQuery(doc, query) /\ doc.status = "archived")

\* The current collection holds `fleet` further rows, written by one bulk
\* upsert: the vessels FleetRow.mmsi, FleetRow.mmsi + 1, ... at the same
\* position, of the same report time and lastUpdated instant.
FleetRow ==
    [mmsi |-> 1001, latitude |-> 1, longitude |-> 104, timestamp |-> 5,
     name |-> Unset, updateCount |-> 1, lastUpdated |-> 1000]

FleetMMSIs == FleetRow.mmsi .. (FleetRow.mmsi + fleet - 1)

\* the number of those rows the filter of the query selects
FleetInArea(query) == IF GeoQuery(FleetRow, query) THEN fleet ELSE 0

\* countDocuments(geoQuery) on the current collection
CurrentCount(query) == Len(CurrentInArea(query)) + FleetInArea(query)

\* countDocuments({ ...geoQuery, status: 'archived' }) on the log collection
ArchivedCount(query) == Len(ArchivedInArea(query))

\* the storage operations one count issues, and one page fetch issues
CountOperations(dataType) == IF dataType = "all" THEN 2 ELSE 1

PageOperations(dataType) == IF dataType = "all" THEN 4 ELSE 2

\* getPOIAreaTotalCount: dataBreakdown.currentVessels and .archivedVessels
CurrentVessels(query) ==
    IF query.dataType \in {"vessel", "all"} THEN CurrentCount(query) ELSE 0

ArchivedVessels(query) ==
    IF query.dataType \in {"track", "ais", "all"} THEN ArchivedCount(query) ELSE 0

TotalCount_CurrentOnly(query) == CurrentVessels(query)

\* getPOIAreaTotalCount: totalCount
TotalCount(query) ==
    CASE query.dataType = "vessel" -> CurrentVessels(query)
      [] query.dataType \in {"track", "ais"} -> ArchivedVessels(query)
      [] query.dataType = "all" -> CurrentVessels(query) + ArchivedVessels(query)

\* distinct('mmsi', filter) on the two collections: the MMSIs of the stored
\* documents, and the number of further MMSIs (those of the counted rows)
CurrentMMSIs(query) ==
    {CurrentInArea(query)[k].mmsi : k \in DOMAIN CurrentInArea(query)}

ArchivedMMSIs(query) ==
    {ArchivedInArea(query)[k].mmsi : k \in DOMAIN ArchivedInArea(query)}

\* the length of the array of distinct MMSIs
DistinctLength(mmsis, counted) ==
    Cardinality({m \in mmsis : counted = 0 \/ m \notin FleetMMSIs}) + counted

\* getUniqueMMSIsInArea: uniqueMMSIs.length
GetUniqueMMSIsInArea(query) ==
    CASE query.dataType = "vessel" ->
           DistinctLength(CurrentMMSIs(query), FleetInArea(query))
      [] query.dataType \in {"track", "ais"} -> DistinctLength(ArchivedMMSIs(query), 0)
      [] query.dataType = "all" ->
           DistinctLength(CurrentMMSIs(query) \cup ArchivedMMSIs(query),
                          FleetInArea(query))

\* Math.ceil(totalCount / pageSize)
TotalPages(totalCount) == (totalCount + PageSize - 1) \div PageSize

\* .skip(skip).limit(limit) on a result list
SkipLimit(docs, skip, limit) ==
    SubSeq(docs, skip + 1, IF skip + limit < Len(docs) THEN skip + limit ELSE Len(docs))

\* .sort({ [key]: -1 }): descending by the key, documents of equal key in
\* stored order
SortDescending(docs, key) ==
    LET n == Len(docs)
        rank == [i \in 1..n |->
                   Cardinality({j \in 1..n :
                                  \/ docs[j][key] > docs[i][key]
                                  \/ docs[j][key] = docs[i][key] /\ j < i})]
        at == [k \in 1..n |-> CHOOSE i \in 1..n : rank[i] = k - 1]
    IN  [k \in 1..n |-> docs[at[k]]]

\* A result list is held as runs [doc, n]: n consecutive documents that are
\* doc for the vessels doc.mmsi, doc.mmsi + 1, ..., doc.mmsi + n - 1.
Follows(run, doc) ==
    /\ doc.mmsi = run.doc.mmsi + run.n
    /\ doc = [run.doc EXCEPT !.mmsi = doc.mmsi]

AppendRun(runs, doc, n) ==
    IF n = 0 THEN runs
    ELSE IF runs # <<>> /\ Follows(runs[Len(runs)], doc)
    THEN [runs EXCEPT ![Len(runs)].n = @ + n]
    ELSE Append(runs, [doc |-> doc, n |-> n])

\* the list runs followed by the list more
ConcatRuns(runs, more) ==
    IF more = <<>> THEN runs
    ELSE AppendRun(runs, Head(more).doc, Head(more).n) \o Tail(more)

\* the runs of a list of documents
Encode(docs) == [k \in DOMAIN docs |-> [doc |-> docs[k], n |-> 1]]

\* the number of documents in runs lo..hi
RECURSIVE RunsLength(_, _, _)
RunsLength(runs, lo, hi) ==
    IF lo > hi THEN 0
    ELSE IF lo = hi THEN runs[lo].n
    ELSE RunsLength(runs, lo, (lo + hi) \div 2)
           + RunsLength(runs, (lo + hi) \div 2 + 1, hi)

\* the list of documents of runs lo..hi
RECURSIVE Decode(_, _, _)
Decode(runs, lo, hi) ==
    IF lo > hi THEN <<>>
    ELSE IF lo = hi
    THEN [k \in 1..runs[lo].n |-> [runs[lo].doc EXCEPT !.mmsi = @ + k - 1]]
    ELSE Decode(runs, lo, (lo + hi) \div 2) \o Decode(runs, (lo + hi) \div 2 + 1, hi)

\* .skip(skip) and .limit(limit) on runs
SkipRuns(runs, skip) ==
    LET upTo == [k \in DOMAIN runs |-> RunsLength(runs, 1, k)]
        rest == {k \in DOMAIN runs : upTo[k] > skip}
    IN  IF rest = {} THEN <<>>
        ELSE LET first == MinOf(rest)
                 left == upTo[first] - skip
             IN  <<[doc |-> [runs[first].doc EXCEPT !.mmsi = @ + runs[first].n - left],
                    n |-> left]>>
                   \o SubSeq(runs, first + 1, Len(runs))

LimitRuns(runs, limit) ==
    LET upTo == [k \in DOMAIN runs |-> RunsLength(runs, 1, k)]
        over == {k \in DOMAIN runs : upTo[k] >= limit}
    IN  IF limit = 0 THEN <<>>
        ELSE IF over = {} THEN runs
        ELSE LET last == MinOf(over)
             IN  SubSeq(runs, 1, last - 1)
                   \o <<[runs[last] EXCEPT !.n = limit - (upTo[last] - runs[last].n)]>>

\* find(filter).sort({ lastUpdated: -1 }) on the current collection; the
\* counted rows come after the stored rows of the same lastUpdated
SortedCurrent(rows, counted) ==
    LET sorted == SortDescending(rows, "lastUpdated")
        before == SelectSeq(sorted, LAMBDA doc : doc.lastUpdated >= FleetRow.lastUpdated)
        after  == SelectSeq(sorted, LAMBDA doc : doc.lastUpdated < FleetRow.lastUpdated)
    IN  ConcatRuns(AppendRun(Encode(before), FleetRow, counted), Encode(after))

\* find(geoQuery).sort({ lastUpdated: -1 }).skip(skip).limit(limit) on the
\* current collection
FindCurrent(query, skip, limit) ==
    LimitRuns(SkipRuns(SortedCurrent(CurrentInArea(query), FleetInArea(query)), skip),
              limit)

\* find({ ...geoQuery, status: 'archived' }).sort({ [key]: -1 }).skip(skip)
\* .limit(limit) on the log collection
FindArchived(query, key, skip, limit) ==
    Encode(SkipLimit(SortDescending(ArchivedInArea(query), key), skip, limit))

PageVessels_Merged(query, page) ==
    LET skip == (page - 1) * PageSize
        both == ConcatRuns(FindCurrent(query, skip \div 2, PageSize \div 2),
                           FindArchived(query, "timestamp", skip \div 2, PageSize \div 2))
    IN  CASE query.dataType = "vessel" -> FindCurrent(query, skip, PageSize)
          [] query.dataType = "track" -> FindArchived(query, "timestamp", skip, PageSize)
          [] query.dataType = "ais" -> FindArchived(query, "archivedAt", skip, PageSize)
          [] query.dataType = "all" ->
               Encode(SortDescending(Decode(both, 1, Len(both)), "timestamp"))

\* getVesselsByPOIArea: the documents of one page
PageVessels(query, page) ==
    LET skip == (page - 1) * PageSize
    IN  CASE query.dataType = "vessel" -> FindCurrent(query, skip, PageSize)
          [] query.dataType = "track" -> FindArchived(query, "timestamp", skip, PageSize)
          [] query.dataType = "ais" -> FindArchived(query, "archivedAt", skip, PageSize)
          [] query.dataType = "all" ->
               ConcatRuns(FindCurrent(query, skip \div 2, PageSize \div 2),
                          FindArchived(query, "timestamp", skip \div 2, PageSize \div 2))

NoQuery ==
    [minLongitude |-> 0, maxLongitude |-> 0, minLatitude |-> 0, maxLatitude |-> 0,
     startDate |-> <<>>, endDate |-> <<>>, dataType |-> "vessel",
     page |-> 1, autoFetch |-> FALSE]

\* errors: the pages whose fetch failed; requested: the pages asked for, in order
IdlePoi ==
    [pc |-> "idle", endpoint |-> "none", query |-> NoQuery, stage |-> "none",
     ops |-> 0, outcome |-> "none", error |-> "none",
     totalCount |-> 0, totalPages |-> 0, page |-> 0,
     currentVessels |-> 0, archivedVessels |-> 0, totalUnique |-> 0,
     vessels |-> <<>>, errors |-> <<>>, requested |-> <<>>]

\* the handler throws BadRequestException: thrown by the pipe or by the
\* validation, or wrapped by the handler's catch block
RejectRequest(p, message) ==
    [p EXCEPT !.pc = "done", !.outcome = "rejected", !.error = message]

ReturnResponse(p) == [p EXCEPT !.pc = "done", !.outcome = "ok"]

\* getPOIAreaTotalCount up to its await: buildGeoQuery, then the count(s)
StartCount(p, stage) ==
    IF GeoQueryThrows(p.query)
    THEN RejectRequest(p, "All coordinate bounds are required")
    ELSE [p EXCEPT !.pc = "count", !.stage = stage,
                   !.ops = @ + CountOperations(p.query.dataType)]

\* getVesselsByPOIArea(page) up to its await: buildGeoQuery, then find + count
StartPage(p, stage, page) ==
    IF GeoQueryThrows(p.query)
    THEN RejectRequest(p, "All coordinate bounds are required")
    ELSE [p EXCEPT !.pc = "page", !.stage = stage, !.page = page,
                   !.requested = Append(@, page),
                   !.ops = @ + PageOperations(p.query.dataType)]

\* getPOIAreaTotalCount has returned to the code that awaited it
AfterCount(p) ==
    CASE p.stage = "count" -> ReturnResponse(p)
      [] p.stage = "precheck" ->
           IF p.totalCount > MaxAutoFetch
           THEN RejectRequest(p, "Dataset too large")
           ELSE StartCount(p, "loop")
      [] p.stage = "loop" ->
           IF 1 <= p.totalPages THEN StartPage(p, "loop", 1) ELSE ReturnResponse(p)

\* validateCoordinateBounds: the message of the exception it throws, or "valid"
\* (the bounds are parseFloat results; the requests drawn here carry numbers)
ValidateCoordinateBounds(bounds) ==
    IF bounds.minLongitude < -180 \/ bounds.maxLongitude > 180
    THEN "Longitude must be between -180 and 180"
    ELSE IF bounds.minLatitude < -90 \/ bounds.maxLatitude > 90
    THEN "Latitude must be between -90 and 90"
    ELSE IF bounds.minLongitude >= bounds.maxLongitude
    THEN "minLongitude must be less than maxLongitude"
    ELSE IF bounds.minLatitude >= bounds.maxLatitude
    THEN "minLatitude must be less than maxLatitude"
    ELSE "valid"

\* GET poi-area/quick-count up to its await: validateCoordinateBounds, then
\* getVesselCountInPOIArea issues countDocuments on the current collection
GetQuickVesselCount(bounds) ==
    /\ poi.pc = "idle"
    /\ LET p == [poi EXCEPT !.endpoint = "quick", !.query = bounds]
       IN  poi' = IF ValidateCoordinateBounds(bounds) # "valid"
                  THEN RejectRequest(p, ValidateCoordinateBounds(bounds))
                  ELSE [p EXCEPT !.pc = "quick", !.ops = @ + 1]
    /\ UNCHANGED <<storeVars, collVars, dd, pb, fleet, gw, processing, retention>>

\* getVesselCountInPOIArea: countDocuments has settled; a failure is rethrown
\* and wrapped by the handler
QuickCountSettled(ok) ==
    /\ poi.pc = "quick"
    /\ poi' = IF ok
              THEN ReturnResponse([poi EXCEPT !.totalCount = CurrentCount(poi.query)])
              ELSE RejectRequest(poi, "Failed to get quick vessel count")
    /\ UNCHANGED <<storeVars, collVars, dd, pb, fleet, gw, processing, retention>>

\* GET poi-area/count (POIAreaCountDto)
GetPOIAreaCount(query) ==
    /\ poi.pc = "idle"
    /\ LET p == [poi EXCEPT !.endpoint = "count", !.query = query]
       IN  poi' = IF ValidatePOIAreaQuery(query) # "valid"
                  THEN RejectRequest(p, ValidatePOIAreaQuery(query))
                  ELSE StartCount(p, "count")
    /\ UNCHANGED <<storeVars, collVars, dd, pb, fleet, gw, processing, retention>>

\* GET poi-area (QueryPOIAreaDto): one page, or every page with autoFetch
GetVesselsByPOIArea(query) ==
    /\ poi.pc = "idle"
    /\ LET p == [poi EXCEPT !.endpoint = "page", !.query = query]
       IN  poi' = IF ~ValidateQueryPOIAreaDto(query)
                  THEN RejectRequest(p, "Validation failed")
                  ELSE IF ValidatePOIAreaQuery(query) # "valid"
                  THEN RejectRequest(p, ValidatePOIAreaQuery(query))
                  ELSE IF query.autoFetch
                  THEN StartCount(p, "loop")
                  ELSE StartPage(p, "single", query.page)
    /\ UNCHANGED <<storeVars, collVars, dd, pb, fleet, gw, processing, retention>>

\* GET poi-area/all (QueryPOIAreaDto): count as a pre-check, then every page
GetAllPOIAreaData(query) ==
    /\ poi.pc = "idle"
    /\ LET p == [poi EXCEPT !.endpoint = "all", !.query = query]
       IN  poi' = IF ~ValidateQueryPOIAreaDto(query)
                  THEN RejectRequest(p, "Validation failed")
                  ELSE IF ValidatePOIAreaQuery(query) # "valid"
                  THEN RejectRequest(p, ValidatePOIAreaQuery(query))
                  ELSE StartCount(p, "precheck")
    /\ UNCHANGED <<storeVars, collVars, dd, pb, fleet, gw, processing, retention>>

\* getPOIAreaTotalCount: the count(s) have settled; a positive count goes on to
\* getUniqueMMSIsInArea (distinct on one or both collections)
CountSettled(ok) ==
    /\ poi.pc = "count"
    /\ LET counted == [poi EXCEPT !.totalCount = TotalCount(poi.query),
                                  !.totalPages = TotalPages(TotalCount(poi.query)),
                                  !.currentVessels = CurrentVessels(poi.query),
                                  !.archivedVessels = ArchivedVessels(poi.query),
                                  !.totalUnique = 0]
       IN  poi' = IF ~ok THEN RejectRequest(poi, "count failed")
                  ELSE IF counted.totalCount > 0
                  THEN [counted EXCEPT !.pc = "unique",
                                       !.ops = @ + CountOperations(poi.query.dataType)]
                  ELSE AfterCount(counted)
    /\ UNCHANGED <<storeVars, collVars, dd, pb, fleet, gw, processing, retention>>

\* getUniqueMMSIsInArea has settled
UniqueSettled(ok) ==
    /\ poi.pc = "unique"
    /\ poi' = IF ok
              THEN AfterCount([poi EXCEPT !.totalUnique =
                                 GetUniqueMMSIsInArea(poi.query)])
              ELSE RejectRequest(poi, "distinct failed")
    /\ UNCHANGED <<storeVars, collVars, dd, pb, fleet, gw, processing, retention>>

\* getVesselsByPOIArea: totalCount of the page's own countDocuments
PageTotalCount(query) ==
    CASE query.dataType = "vessel" -> CurrentCount(query)
      [] query.dataType = "track" -> ArchivedCount(query)
      [] query.dataType = "ais" -> ArchivedCount(query)
      [] query.dataType = "all" -> CurrentCount(query) + ArchivedCount(query)

\* the pagination metadata of a single page's response
Paginated(p) ==
    [p EXCEPT !.totalCount = PageTotalCount(p.query),
              !.totalPages = TotalPages(PageTotalCount(p.query))]

PageFetched_FailFast(ok) ==
    /\ poi.pc = "page"
    /\ (~ok /\ poi.stage = "loop") => Len(poi.errors) < MaxPageErrors
    /\ LET fetched == IF ok
                      THEN [poi EXCEPT !.vessels =
                              ConcatRuns(@, PageVessels(poi.query, poi.page))]
                      ELSE [poi EXCEPT !.errors = Append(@, poi.page)]
       IN  poi' = IF poi.stage = "single"
                  THEN IF ok THEN ReturnResponse(Paginated(fetched))
                       ELSE RejectRequest(poi, "page failed")
                  ELSE IF ok /\ poi.page < poi.totalPages
                  THEN StartPage(fetched, "loop", poi.page + 1)
                  ELSE ReturnResponse(fetched)
    /\ UNCHANGED <<storeVars, collVars, dd, pb, fleet, gw, processing, retention>>

\* isComplete: pageErrors.length === 0
IsComplete(p) == Len(p.errors) = 0

\* getVesselsByPOIArea: the page's find and count have settled; inside the
\* auto-fetch loop a failed page is recorded and the loop goes on (at most
\* MaxPageErrors pages of one loop fail)
PageFetched(ok) ==
    /\ poi.pc = "page"
    /\ (~ok /\ poi.stage = "loop") => Len(poi.errors) < MaxPageErrors
    /\ LET fetched == IF ok
                      THEN [poi EXCEPT !.vessels =
                              ConcatRuns(@, PageVessels(poi.query, poi.page))]
                      ELSE [poi EXCEPT !.errors = Append(@, poi.page)]
       IN  poi' = IF poi.stage = "single"
                  THEN IF ok THEN ReturnResponse(Paginated(fetched))
                       ELSE RejectRequest(poi, "page failed")
                  ELSE IF poi.page < poi.totalPages
                  THEN StartPage(fetched, "loop", poi.page + 1)
                  ELSE ReturnResponse(fetched)
    /\ UNCHANGED <<storeVars, collVars, dd, pb, fleet, gw, processing, retention>>

-----------------------------------------------------------------------------
(* VesselTrackingGateway (instants and ages are counted in minutes) *)

INITIAL_DATA_AGE_HOURS == 24

UPDATE_DATA_AGE_MINUTES == 1

INITIAL_DATA_AGE_MS == INITIAL_DATA_AGE_HOURS * 60

UPDATE_DATA_AGE_MS == UPDATE_DATA_AGE_MINUTES

\* the limit sendLatestDataToClient hands to getCurrentVessels
SnapshotLimit == 10000

\* a report time that is missing (the field is absent or falsy), and one that
\* does not parse (new Date(...) is an Invalid Date)
NoTime == -1

InvalidTime == -2

\* new Date(`${vessel.data_date} ${vessel.data_time}`) when both are given
DataDateTime(vessel) == IF "data" \in DOMAIN vessel THEN vessel.data ELSE NoTime

TimestampOf(vessel) ==
    IF "timestamp" \in DOMAIN vessel THEN vessel.timestamp ELSE NoTime

CheckVesselAge_Day(vessel, maxAgeMs, now) ==
    LET vesselDateTime == IF DataDateTime(vessel) # NoTime THEN DataDateTime(vessel)
                          ELSE TimestampOf(vessel)
    IN  /\ vesselDateTime \notin {NoTime, InvalidTime}
        /\ now - vesselDateTime >= 0
        /\ now - vesselDateTime <= INITIAL_DATA_AGE_MS

CheckVesselAge_NoLowerBound(vessel, maxAgeMs, now) ==
    LET vesselDateTime == IF DataDateTime(vessel) # NoTime THEN DataDateTime(vessel)
                          ELSE TimestampOf(vessel)
    IN  /\ vesselDateTime \notin {NoTime, InvalidTime}
        /\ now - vesselDateTime <= maxAgeMs

\* checkVesselAge at the instant now
CheckVesselAge(vessel, maxAgeMs, now) ==
    LET vesselDateTime == IF DataDateTime(vessel) # NoTime THEN DataDateTime(vessel)
                          ELSE TimestampOf(vessel)
    IN  IF vesselDateTime = NoTime THEN FALSE
        ELSE IF vesselDateTime = InvalidTime THEN FALSE
        ELSE IF now - vesselDateTime < 0 THEN FALSE
        ELSE now - vesselDateTime <= maxAgeMs

IsVesselFreshForInitial(vessel, now) == CheckVesselAge(vessel, INITIAL_DATA_AGE_MS, now)

IsVesselFreshForUpdate(vessel, now) == CheckVesselAge(vessel, UPDATE_DATA_AGE_MS, now)

\* getVesselDateTime: the instant the sorts compare (new Date(0) without a time)
GetVesselDateTime(vessel) ==
    IF DataDateTime(vessel) # NoTime THEN DataDateTime(vessel)
    ELSE IF TimestampOf(vessel) # NoTime THEN TimestampOf(vessel)
    ELSE 0

\* Array.prototype.sort with a comparator: Before(a, b) is "the comparator is
\* negative on (a, b)"; elements that compare equal keep their order
SortBy(runs, Before(_, _)) ==
    LET n == Len(runs)
        rank == [i \in 1..n |->
                   Cardinality({j \in 1..n :
                                  \/ Before(runs[j].doc, runs[i].doc)
                                  \/ ~Before(runs[i].doc, runs[j].doc) /\ j < i})]
        at == [k \in 1..n |-> CHOOSE i \in 1..n : rank[i] = k - 1]
    IN  [k \in 1..n |-> runs[at[k]]]

\* vessels.filter(...)
FilterRuns(runs, Keep(_)) == SelectSeq(runs, LAMBDA run : Keep(run.doc))

\* AisDataService.getCurrentVessels(limit)
GetCurrentVessels(limit) ==
    IF limit = 0 THEN SortedCurrent(current, fleet)
    ELSE LimitRuns(SortedCurrent(current, fleet), limit)

NoMessage ==
    [event |-> "none", timestamp |-> 0, count |-> 0, total |-> 0, mmsi |-> 0,
     vessels |-> <<>>]

\* the payload of 'initial_data' for the loaded rows
InitialDataPayload(allVessels, now) ==
    LET initialVessels ==
          FilterRuns(allVessels, LAMBDA vessel : IsVesselFreshForInitial(vessel, now))
        sortedVessels ==
          SortBy(initialVessels,
                 LAMBDA a, b :
                   \/ IsVesselFreshForUpdate(a, now) /\ ~IsVesselFreshForUpdate(b, now)
                   \/ /\ IsVesselFreshForUpdate(a, now) = IsVesselFreshForUpdate(b, now)
                      /\ GetVesselDateTime(a) > GetVesselDateTime(b))
    IN  [NoMessage EXCEPT !.event = "initial_data", !.timestamp = now,
                          !.count = RunsLength(sortedVessels, 1, Len(sortedVessels)),
                          !.total = RunsLength(allVessels, 1, Len(allVessels)),
                          !.vessels = sortedVessels]

\* the payload of 'vessel_update' for the fresh vessels of a list
UpdatePayload(vessels, now) ==
    LET recentlyUpdatedVessels ==
          FilterRuns(vessels, LAMBDA vessel : IsVesselFreshForUpdate(vessel, now))
        sortedRecentVessels ==
          SortBy(recentlyUpdatedVessels,
                 LAMBDA a, b : GetVesselDateTime(a) > GetVesselDateTime(b))
    IN  [NoMessage EXCEPT !.event = "vessel_update", !.timestamp = now,
                          !.count = RunsLength(sortedRecentVessels, 1,
                                               Len(sortedRecentVessels)),
                          !.total = RunsLength(vessels, 1, Len(vessels)),
                          !.vessels = sortedRecentVessels]

GatewayClients == {1, 2}

NoBroadcast ==
    [op |-> "none", vessels |-> <<>>, mmsi |-> 0, given |-> FALSE, now |-> 0,
     emitted |-> <<>>]

\* clients: connectedClients; loading: the clients whose sendLatestDataToClient
\* awaits the rows; inbox: per client, the messages emitted to its socket;
\* last: the last broadcast call; sent: the number of broadcast calls
IdleGateway ==
    [now |-> 0, clients |-> {}, seen |-> {}, loading |-> {},
     inbox |-> [c \in GatewayClients |-> <<>>], last |-> NoBroadcast, sent |-> 0]

\* server.emit: one message to every connected socket
ServerEmit(g, messages) ==
    [g EXCEPT !.inbox = [c \in GatewayClients |->
                           IF c \in g.clients THEN g.inbox[c] \o messages
                           ELSE g.inbox[c]]]

\* handleConnection: register the socket, start sendLatestDataToClient
HandleConnection(client) ==
    /\ client \notin gw.seen
    /\ gw' = [gw EXCEPT !.clients = @ \cup {client}, !.seen = @ \cup {client},
                        !.loading = @ \cup {client}]
    /\ UNCHANGED <<storeVars, collVars, dd, pb, poi, fleet, processing, retention>>

HandleDisconnect(client) ==
    /\ client \in gw.clients
    /\ gw' = [gw EXCEPT !.clients = @ \ {client}]
    /\ UNCHANGED <<storeVars, collVars, dd, pb, poi, fleet, processing, retention>>

\* sendLatestDataToClient after its await: getCurrentVessels(10000) resolved
\* (ok) or rejected; either way one message is emitted to the socket
SendLatestDataToClient(client, ok) ==
    /\ client \in gw.loading
    /\ LET message == IF ok
                      THEN InitialDataPayload(GetCurrentVessels(SnapshotLimit), gw.now)
                      ELSE [NoMessage EXCEPT !.event = "initial_data_error",
                                             !.timestamp = gw.now]
       IN  gw' = [gw EXCEPT !.loading = @ \ {client},
                            !.inbox[client] = Append(@, message)]
    /\ UNCHANGED <<storeVars, collVars, dd, pb, poi, fleet, processing, retention>>

\* broadcastVesselUpdate(vessels)
BroadcastVesselUpdate(vessels) ==
    /\ LET payload == UpdatePayload(vessels, gw.now)
           emitted == IF vessels = <<>> \/ payload.vessels = <<>> THEN <<>>
                      ELSE <<payload>>
       IN  gw' = [ServerEmit(gw, emitted)
                    EXCEPT !.last = [NoBroadcast EXCEPT !.op = "update",
                                                        !.vessels = vessels,
                                                        !.now = gw.now,
                                                        !.emitted = emitted],
                           !.sent = @ + 1]
    /\ UNCHANGED <<storeVars, collVars, dd, pb, poi, fleet, processing, retention>>

\* broadcastVesselPosition(mmsi, position); given = FALSE: no position object
BroadcastVesselPosition(mmsi, position, given) ==
    /\ LET payload == [NoMessage EXCEPT !.event = "position_update",
                                        !.timestamp = gw.now, !.mmsi = mmsi,
                                        !.count = 1, !.total = 1,
                                        !.vessels = Encode(<<position>>)]
           emitted == IF mmsi = 0 \/ ~given THEN <<>>
                      ELSE IF ~IsVesselFreshForUpdate(position, gw.now) THEN <<>>
                      ELSE <<[payload EXCEPT !.event = "vessel_mmsi"], payload>>
       IN  gw' = [ServerEmit(gw, emitted)
                    EXCEPT !.last = [NoBroadcast EXCEPT !.op = "position",
                                                        !.vessels = Encode(<<position>>),
                                                        !.mmsi = mmsi,
                                                        !.given = given,
                                                        !.now = gw.now,
                                                        !.emitted = emitted],
                           !.sent = @ + 1]
    /\ UNCHANGED <<storeVars, collVars, dd, pb, poi, fleet, processing, retention>>

-----------------------------------------------------------------------------
(* Spec: reconciliations run one after another (one caller) *)

\* the report lists of length n (a caller hands in at most MaxLen reports)
ReportLists(n) == [1..n -> Reports]

\* list lengths a caller may still hand in
Lengths(least) == {n \in least..MaxLen : used + n <= MaxReports}

InitStore ==
    /\ current = <<>>
    /\ logs = <<>>
    /\ call = [p \in Procs |-> IdleCall]
    /\ used = 0
    /\ succ = [m \in MMSIs |-> 0]
    /\ hist = [m \in MMSIs |-> <<>>]
    /\ clean = [m \in MMSIs |-> TRUE]

\* the metrics after construction; skipped and ran are history (the ticks that
\* found a collection in progress, the ticks that passed the guard); pc: where
\* the handleScheduledCollection call of a caller stands
IdleSched ==
    [totalCollections |-> 0, successfulCollections |-> 0, lastError |-> Unset,
     skipped |-> 0, ran |-> 0, pc |-> [c \in Procs |-> "idle"]]

InitCollector ==
    /\ isCollecting = FALSE
    /\ collection = [c \in Procs |-> IdleCollection]
    /\ requestCount = 0
    /\ started = 0
    /\ sched = IdleSched

NoDedup == [pc |-> "none", input |-> <<>>, output |-> <<>>]

NoPlayback ==
    [pc |-> "none", mmsi |-> 0, startDate |-> <<>>, endDate |-> <<>>,
     intervalMinutes |-> 0, output |-> <<>>]

NoProcessing == [pc |-> "none", input |-> <<>>, output |-> <<>>]

NoRetention == [pc |-> "none", daysToKeep |-> 0, now |-> 0, deletedCount |-> 0]

InitCalls ==
    /\ dd = NoDedup
    /\ pb = NoPlayback
    /\ poi = IdlePoi
    /\ fleet = 0
    /\ gw = IdleGateway
    /\ processing = NoProcessing
    /\ retention = NoRetention

Init ==
    /\ InitStore
    /\ InitCollector
    /\ InitCalls

Update ==
    /\ \E n \in Lengths(0) :
         \E list \in ReportLists(n) : UpdateCurrentVesselData(1, list)
    /\ UNCHANGED <<collVars, callVars>>

Lookup == LookupExisting(1) /\ UNCHANGED <<collVars, callVars>>

Archive == ArchiveExisting(1) /\ UNCHANGED <<collVars, callVars>>

Upsert == UpsertCurrent(1) /\ UNCHANGED <<collVars, callVars>>

Bulk ==
    /\ \E n \in Lengths(1) :
         \E list \in ReportLists(n) :
           \E order \in Perms(n) :
             \E failed \in SUBSET (1..n) :
               BulkUpsertVessels(1, list, order, failed)
    /\ UNCHANGED <<collVars, callVars>>

Next == Update \/ Lookup \/ Archive \/ Upsert \/ Bulk

Spec == Init /\ [][Next]_vars

-----------------------------------------------------------------------------
(* SpecInterleaved: two callers of the store run at once (a collection and the
   HTTP update endpoint or collectSpecificVessels; none of them takes the busy
   flag around the store call); their awaits interleave *)

UpdateBy ==
    /\ \E p \in Procs : \E n \in Lengths(1) :
         \E list \in ReportLists(n) : UpdateCurrentVesselData(p, list)
    /\ UNCHANGED <<collVars, callVars>>

LookupBy == (\E p \in Procs : LookupExisting(p)) /\ UNCHANGED <<collVars, callVars>>

ArchiveBy == (\E p \in Procs : ArchiveExisting(p)) /\ UNCHANGED <<collVars, callVars>>

UpsertBy == (\E p \in Procs : UpsertCurrent(p)) /\ UNCHANGED <<collVars, callVars>>

BulkBy ==
    /\ \E p \in Procs : \E n \in Lengths(1) :
         \E list \in ReportLists(n) :
           \E order \in Perms(n) :
             \E failed \in SUBSET (1..n) :
               BulkUpsertVessels(p, list, order, failed)
    /\ UNCHANGED <<collVars, callVars>>

NextInterleaved == UpdateBy \/ LookupBy \/ ArchiveBy \/ UpsertBy \/ BulkBy

SpecInterleaved == Init /\ [][NextInterleaved]_vars

-----------------------------------------------------------------------------
(* TelkomsatCollectorService.cleanup *)

\* resetMetrics()
ResetMetrics(s) ==
    [s EXCEPT !.totalCollections = 0, !.successfulCollections = 0,
              !.lastError = Unset]

\* cleanup(): this.isCollecting = false; this.resetMetrics() -- whatever the
\* collector is doing
CollectorCleanup ==
    /\ isCollecting' = FALSE
    /\ sched' = ResetMetrics(sched)
    /\ UNCHANGED <<collection, requestCount, started>>

-----------------------------------------------------------------------------
(* SpecCollector: two callers (scheduler tick, HTTP request) use the collector *)

CollectCall ==
    /\ \E c \in Procs : CollectAndStoreVessels(c)
    /\ UNCHANGED callVars

AggressiveCall ==
    /\ \E c \in Procs : ForceAggressiveCollection(c)
    /\ UNCHANGED callVars

Page1 ==
    /\ \E c \in Procs : \E res \in PageResults(c) : Page1Settled(c, res)
    /\ UNCHANGED callVars

Fallback ==
    /\ \E c \in Procs : \E res \in PageResults(c) : FallbackSettled(c, res)
    /\ UNCHANGED callVars

Pages ==
    /\ \E c \in Procs : \E res \in PageResults(c) : PageSettled(c, res)
    /\ UNCHANGED callVars

Others ==
    /\ \E c \in Procs : \E res \in PageResults(c) : OtherSettled(c, res)
    /\ UNCHANGED callVars

StoreLookup ==
    /\ \E c \in Procs : collection[c].pc = "store" /\ LookupExisting(c)
    /\ UNCHANGED <<collVars, callVars>>

StoreArchive ==
    /\ \E c \in Procs : collection[c].pc = "store" /\ ArchiveExisting(c)
    /\ UNCHANGED <<collVars, callVars>>

StoreUpsert ==
    /\ \E c \in Procs : collection[c].pc = "store" /\ UpsertCurrent(c)
    /\ UNCHANGED <<collVars, callVars>>

StoreDone ==
    /\ \E c \in Procs : StoreReturned(c)
    /\ UNCHANGED callVars

Broadcast ==
    /\ \E c \in Procs : BroadcastDone(c)
    /\ UNCHANGED callVars

NextCollector ==
    \/ CollectCall \/ AggressiveCall \/ Page1 \/ Fallback \/ Pages \/ Others
    \/ StoreLookup \/ StoreArchive \/ StoreUpsert \/ StoreDone \/ Broadcast

SpecCollector == Init /\ [][NextCollector]_vars

-----------------------------------------------------------------------------
(* SpecCleanup: the collector with its public cleanup() next to the two callers *)

\* a collectAndStoreVessels call of caller 1 has passed the guard, set the flag
\* and sent its first request, with the row of vessel 1 stored; `started`
\* counts the collections that pass the guard from here on
\* the row an earlier collection stored for vessel 1
InFlightRow ==
    SetFields(EmptyDoc(1), [mmsi |-> 1, latitude |-> 1, longitude |-> 104,
                            timestamp |-> <<1, 0>>, name |-> Unset], 1)

InitInFlight ==
    /\ current = <<InFlightRow>>
    /\ logs = <<>>
    /\ call = [p \in Procs |-> IdleCall]
    /\ used = 0
    /\ succ = [m \in MMSIs |-> 0]
    /\ hist = [m \in MMSIs |-> <<>>]
    /\ clean = [m \in MMSIs |-> TRUE]
    /\ isCollecting = TRUE
    /\ collection = [c \in Procs |->
                       IF c = 1
                       THEN [IdleCollection EXCEPT !.pc = "page1", !.kind = "collect"]
                       ELSE IdleCollection]
    /\ requestCount = 1
    /\ started = 0
    /\ sched = IdleSched
    /\ InitCalls

\* the fetches of the two collections together deliver at most
\* MaxFewFetched reports
FewResults(c) ==
    {res \in PageResults(c) :
       collection[1].fetched + collection[2].fetched + Len(res.data)
         <= MaxFewFetched}

FewPage1 ==
    /\ \E c \in Procs : \E res \in FewResults(c) : Page1Settled(c, res)
    /\ UNCHANGED callVars

FewFallback ==
    /\ \E c \in Procs : \E res \in FewResults(c) : FallbackSettled(c, res)
    /\ UNCHANGED callVars

FewPages ==
    /\ \E c \in Procs : \E res \in FewResults(c) : PageSettled(c, res)
    /\ UNCHANGED callVars

FewOthers ==
    /\ \E c \in Procs : \E res \in FewResults(c) : OtherSettled(c, res)
    /\ UNCHANGED callVars

CleanupCall == CollectorCleanup /\ UNCHANGED <<storeVars, callVars>>

NextFew ==
    \/ CollectCall \/ AggressiveCall
    \/ FewPage1 \/ FewFallback \/ FewPages \/ FewOthers
    \/ StoreLookup \/ StoreArchive \/ StoreUpsert \/ StoreDone \/ Broadcast

NextCleanup == NextFew \/ CleanupCall

SpecCleanup == InitInFlight /\ [][NextCleanup]_vars

-----------------------------------------------------------------------------
(* SpecReturn: a running collection and one further collect call, with every
   upstream and storage call settling: an awaited request, query or write that
   is pending is eventually fulfilled or rejected (the HTTP client has a
   timeout), so the step that consumes its result is eventually taken *)

Settling ==
    \/ FewPage1 \/ FewFallback \/ FewPages \/ FewOthers
    \/ StoreLookup \/ StoreArchive \/ StoreUpsert \/ StoreDone \/ Broadcast

SpecReturn == InitInFlight /\ [][NextFew]_vars /\ WF_vars(Settling)

-----------------------------------------------------------------------------
(* SpecDedup: the two deduplications applied to every short list of reports *)

DedupStamps == {<<d, t>> : d \in {1, 2}, t \in {0, TimesPerDay - 1}}

DedupVessels ==
    [mmsi : MMSIs, latitude : {1, 2}, longitude : {104},
     timestamp : DedupStamps, name : {Unset}]

DedupInputs == UNION {[1..n -> DedupVessels] : n \in 0..MaxDedup}

InitDedup ==
    /\ InitStore
    /\ InitCollector
    /\ dd \in {[pc |-> "input", input |-> input, output |-> <<>>] :
                 input \in DedupInputs}
    /\ pb = NoPlayback
    /\ poi = IdlePoi
    /\ fleet = 0
    /\ gw = IdleGateway
    /\ processing = NoProcessing
    /\ retention = NoRetention

Deduplicate ==
    /\ dd.pc = "input"
    /\ dd' = [dd EXCEPT !.pc = "deduplicated",
                        !.output = DeduplicateVessels(dd.input)]
    /\ UNCHANGED <<storeVars, collVars, pb, poi, fleet, gw, processing, retention>>

Merge ==
    /\ dd.pc = "input"
    /\ dd' = [dd EXCEPT !.pc = "merged", !.output = MergeAggressive(dd.input)]
    /\ UNCHANGED <<storeVars, collVars, pb, poi, fleet, gw, processing, retention>>

NextDedup == Deduplicate \/ Merge

SpecDedup == InitDedup /\ [][NextDedup]_vars

-----------------------------------------------------------------------------
(* SpecProcess: processTelkomsatVessels applied to every short upstream page *)

MmsiTexts ==
    {Absent, Text(<<>>), Text(<<"0">>), Text(<<"7">>), Text(<<"-", "7">>),
     Text(<<"x">>), Text(<<"7", "x">>)}

LatTexts ==
    {Absent, Text(<<>>), Text(<<"0">>), Text(<<"9", "0">>),
     Text(<<"9", "0", ".", "5">>), Text(<<"-", "9", "1">>), Text(<<"x">>)}

LonTexts ==
    {Absent, Text(<<>>), Text(<<"1", "8", "0">>), Text(<<"1", "8", "1">>),
     Text(<<"-", "1", "8", "0", ".", "5">>), Text(<<"-", "0", ".", "5">>)}

\* the records of a page; an element of the array that is null
NullRecord == [present |-> FALSE, mmsi |-> Absent, lat |-> Absent, lon |-> Absent]

TelkomsatVessels ==
    [present : {TRUE}, mmsi : MmsiTexts, lat : LatTexts, lon : LonTexts]
      \cup {NullRecord}

InitProcess ==
    /\ InitStore
    /\ InitCollector
    /\ dd = NoDedup
    /\ pb = NoPlayback
    /\ poi = IdlePoi
    /\ fleet = 0
    /\ gw = IdleGateway
    /\ \E n \in 0..MaxPage :
         processing \in {[pc |-> "input", input |-> input, output |-> <<>>] :
                           input \in [1..n -> TelkomsatVessels]}
    /\ retention = NoRetention

Process ==
    /\ processing.pc = "input"
    /\ processing' = [processing EXCEPT !.pc = "processed",
                                        !.output = ProcessTelkomsatVessels(processing.input)]
    /\ UNCHANGED <<storeVars, collVars, dd, pb, poi, fleet, gw, retention>>

NextProcess == Process

SpecProcess == InitProcess /\ [][NextProcess]_vars

-----------------------------------------------------------------------------
(* AisDataService.cleanupOldLogs and SpecRetention: one cleanup of every small
   archive *)

\* the default of the daysToKeep parameter
DefaultDaysToKeep == 90

\* cleanupOldLogs(daysToKeep = 90): `arg` is <<>> when the argument is omitted
DaysToKeep(arg) == IF arg = <<>> THEN DefaultDaysToKeep ELSE arg[1]

\* cutoffDate = new Date(); cutoffDate.setDate(cutoffDate.getDate() - daysToKeep)
CutoffDate(now, daysToKeep) == now - daysToKeep * TimesPerDay

\* the deleteMany filter without its status condition
DeleteFilter_AnyStatus(log, cutoffDate) == log.timestamp < cutoffDate

\* the deleteMany filter: { timestamp: { $lt: cutoffDate }, status: 'archived' }
DeleteFilter(log, cutoffDate) ==
    /\ log.timestamp < cutoffDate
    /\ log.status = "archived"

Kept(log, cutoffDate) == ~DeleteFilter(log, cutoffDate)

\* cleanupOldLogs: one deleteMany on the log collection, awaited; its
\* deletedCount is returned, a rejected deleteMany rejects the call
CleanupOldLogs(arg, ok) ==
    /\ retention.pc = "ready"
    /\ LET daysToKeep == DaysToKeep(arg)
           cutoffDate == CutoffDate(retention.now, daysToKeep)
           kept == SelectSeq(logs, LAMBDA log : Kept(log, cutoffDate))
       IN /\ logs' = IF ok THEN kept ELSE logs
          /\ retention' = [retention EXCEPT
                             !.pc = IF ok THEN "returned" ELSE "threw",
                             !.daysToKeep = daysToKeep,
                             !.deletedCount = IF ok THEN Len(logs) - Len(kept) ELSE 0]
    /\ UNCHANGED <<current, call, used, succ, hist, clean, collVars,
                   dd, pb, poi, fleet, gw, processing>>

\* the instant of the cleanup: 02:00-like time of day 1 of day 100
RetentionNow == NewDate(<<100, 1>>)

\* report instants on both sides of the 90-day and of the 1-day cutoff
RetentionInstants ==
    {CutoffDate(RetentionNow, DefaultDaysToKeep) + d : d \in {-1, 0, 1}}
      \cup {CutoffDate(RetentionNow, 1) + d : d \in {-1, 0}}

LogStatuses == {"active", "archived", "purged"}

RetentionEntry(instant, status) ==
    [mmsi |-> 1, latitude |-> 1, longitude |-> 104, timestamp |-> instant,
     name |-> Unset, archiveReason |-> "scheduled_update", status |-> status]

RetentionDocs ==
    {RetentionEntry(i, s) : i \in RetentionInstants, s \in LogStatuses}

RetentionRow ==
    [mmsi |-> 1, latitude |-> 1, longitude |-> 104,
     timestamp |-> CutoffDate(RetentionNow, DefaultDaysToKeep) - 1,
     name |-> Unset, updateCount |-> 1, status |-> "archived"]

\* the scheduler passes 90, the controller the parsed `days` or 90
DaysArgs == {<<>>, <<DefaultDaysToKeep>>, <<1>>, <<0>>}

InitRetention ==
    /\ current \in {<<>>, <<RetentionRow>>}
    /\ logs \in UNION {[1..n -> RetentionDocs] : n \in 0..MaxLogs}
    /\ call = [p \in Procs |-> IdleCall]
    /\ used = 0
    /\ succ = [m \in MMSIs |-> 0]
    /\ hist = [m \in MMSIs |-> <<>>]
    /\ clean = [m \in MMSIs |-> TRUE]
    /\ InitCollector
    /\ dd = NoDedup
    /\ pb = NoPlayback
    /\ poi = IdlePoi
    /\ fleet = 0
    /\ gw = IdleGateway
    /\ processing = NoProcessing
    /\ retention = [NoRetention EXCEPT !.pc = "ready", !.now = RetentionNow]

Cleanup == \E arg \in DaysArgs : \E ok \in BOOLEAN : CleanupOldLogs(arg, ok)

NextRetention == Cleanup

SpecRetention == InitRetention /\ [][NextRetention]_vars

-----------------------------------------------------------------------------
(* SpecPlayback: one playback request against every small archive *)

Instants == {NewDate(<<d, t>>) : d \in {0, 1}, t \in 0..(TimesPerDay - 1)}

LogEntry(m, instant, status) ==
    [mmsi |-> m, latitude |-> 1, longitude |-> 104, timestamp |-> instant,
     name |-> Unset, archiveReason |-> "scheduled_update", status |-> status]

\* the entries of vessel 1, one entry of another vessel and one entry that is
\* not archived
PlaybackDocs ==
    {LogEntry(1, i, "archived") : i \in Instants}
      \cup {LogEntry(2, 2, "archived"), LogEntry(1, 2, "active")}

WindowStarts == {<<0, 0>>, <<0, 1>>}

WindowEnds == {<<1, TimesPerDay - 2>>, <<1, TimesPerDay - 1>>}

Intervals == {0, 1, 2, 3}

InitPlayback ==
    /\ current = <<>>
    /\ logs \in UNION {[1..n -> PlaybackDocs] : n \in 0..MaxLogs}
    /\ call = [p \in Procs |-> IdleCall]
    /\ used = 0
    /\ succ = [m \in MMSIs |-> 0]
    /\ hist = [m \in MMSIs |-> <<>>]
    /\ clean = [m \in MMSIs |-> TRUE]
    /\ InitCollector
    /\ dd = NoDedup
    /\ pb = [NoPlayback EXCEPT !.pc = "ready"]
    /\ poi = IdlePoi
    /\ fleet = 0
    /\ gw = IdleGateway
    /\ processing = NoProcessing
    /\ retention = NoRetention

Playback ==
    \E mmsi \in MMSIs : \E startDate \in WindowStarts : \E endDate \in WindowEnds :
      \E intervalMinutes \in Intervals : \E ok \in BOOLEAN :
        GetVesselPlaybackData(mmsi, startDate, endDate, intervalMinutes, ok)

NextPlayback == Playback

SpecPlayback == InitPlayback /\ [][NextPlayback]_vars

-----------------------------------------------------------------------------
(* SpecPoi: one POI-area request against a small store *)

LonGrid == {-181, -180, 0, 100, 108, 180, 181}

LatGrid == {-91, -90, -1, 0, 5, 10, 80, 90, 91}

DateWindows ==
    {<< <<>>, <<>> >>, << <<1>>, <<2>> >>, << <<2>>, <<2>> >>, << <<2>>, <<1>> >>}

DataTypes == {"vessel", "all"}

Queries(autoFetch) ==
    {[minLongitude |-> lon[1], maxLongitude |-> lon[2],
      minLatitude |-> lat[1], maxLatitude |-> lat[2],
      startDate |-> window[1], endDate |-> window[2],
      dataType |-> dataType, page |-> 1, autoFetch |-> auto] :
        lon \in LonGrid \X LonGrid, lat \in LatGrid \X LatGrid,
        window \in DateWindows, dataType \in DataTypes, auto \in autoFetch}

\* the vessel at latitude 1, longitude 104, reported at <<1, 1>>, as a current
\* row and as an archived snapshot
StoredRow ==
    RowAt([mmsi |-> 1, latitude |-> 1, longitude |-> 104,
           timestamp |-> <<1, 1>>, name |-> Unset], 1, 6)

InitPoi ==
    /\ \/ current = <<>> /\ logs = <<>>
       \/ /\ current = <<StoredRow>>
          /\ logs = <<EntryAt(StoredRow, "scheduled_update", 7)>>
    /\ call = [p \in Procs |-> IdleCall]
    /\ used = 0
    /\ succ = [m \in MMSIs |-> 0]
    /\ hist = [m \in MMSIs |-> <<>>]
    /\ clean = [m \in MMSIs |-> TRUE]
    /\ InitCollector
    /\ dd = NoDedup
    /\ pb = NoPlayback
    /\ poi = IdlePoi
    /\ fleet = 0
    /\ gw = IdleGateway
    /\ processing = NoProcessing
    /\ retention = NoRetention

\* a request arrives only while none is being served (one request per behaviour)
PoiCount ==
    /\ poi.pc = "idle"
    /\ \E query \in Queries({FALSE}) : GetPOIAreaCount(query)

PoiPage ==
    /\ poi.pc = "idle"
    /\ \E query \in Queries(BOOLEAN) : GetVesselsByPOIArea(query)

PoiAll ==
    /\ poi.pc = "idle"
    /\ \E query \in Queries({FALSE}) : GetAllPOIAreaData(query)

\* the quick count takes the four bounds only
PoiQuick ==
    /\ poi.pc = "idle"
    /\ \E lon \in LonGrid \X LonGrid : \E lat \in LatGrid \X LatGrid :
         GetQuickVesselCount([NoQuery EXCEPT !.minLongitude = lon[1],
                                             !.maxLongitude = lon[2],
                                             !.minLatitude = lat[1],
                                             !.maxLatitude = lat[2]])

PoiQuickSettled == \E ok \in BOOLEAN : QuickCountSettled(ok)

PoiCountSettled == \E ok \in BOOLEAN : CountSettled(ok)

PoiUniqueSettled == \E ok \in BOOLEAN : UniqueSettled(ok)

PoiPageFetched == \E ok \in BOOLEAN : PageFetched(ok)

NextPoi ==
    \/ PoiCount \/ PoiPage \/ PoiAll
    \/ PoiCountSettled \/ PoiUniqueSettled \/ PoiPageFetched

SpecPoi == InitPoi /\ [][NextPoi]_vars

\* SpecQuick: one quick-count request against the same small store
NextQuick == PoiQuick \/ PoiQuickSettled

SpecQuick == InitPoi /\ [][NextQuick]_vars

-----------------------------------------------------------------------------
(* SpecArea: one POI-area request on valid boxes against stores of one page
   and of several pages, with as many archived entries as current rows and
   with far fewer *)

AreaRows == 110

AreaLogs == 110

\* the report time <<date, time>> of the instant v
Stamp(v) == <<v \div TimesPerDay, v % TimesPerDay>>

\* vessels at longitude 104 (inside both boxes), 107 (inside the wide box) and
\* 120 (outside)
AreaReport(mmsi, longitude, instant) ==
    [mmsi |-> mmsi, latitude |-> 1, longitude |-> longitude,
     timestamp |-> Stamp(instant), name |-> Unset]

\* three current vessels inside the boxes and one outside, no archived entry
ThreeCurrent ==
    <<RowAt(AreaReport(1, 104, 5), 1, 6), RowAt(AreaReport(2, 120, 5), 1, 7),
      RowAt(AreaReport(3, 104, 6), 2, 9), RowAt(AreaReport(4, 104, 2), 1, 8)>>

\* current rows of vessels 1 and 2, archived snapshots of vessels 2 (twice) and 3
MixedCurrent ==
    <<RowAt(AreaReport(1, 104, 7), 1, 8), RowAt(AreaReport(2, 107, 6), 3, 7)>>

MixedLogs ==
    <<EntryAt(RowAt(AreaReport(2, 104, 4), 1, 4), "scheduled_update", 6),
      EntryAt(RowAt(AreaReport(3, 104, 9), 1, 9), "scheduled_update", 10),
      EntryAt(RowAt(AreaReport(2, 104, 5), 2, 5), "scheduled_update", 7)>>

\* stores of several pages: the documents alternate between the two
\* longitudes, and the stored order is the order of no sort key
ManyCurrent ==
    [i \in 1..AreaRows |->
       RowAt(AreaReport(i, IF i % 2 = 0 THEN 104 ELSE 107, (i * 3) % 113), 1,
             (i * 7) % 113)]

ManyLogs ==
    [j \in 1..AreaLogs |->
       EntryAt(RowAt(AreaReport((j % 5) + 1, IF j % 2 = 0 THEN 104 ELSE 107,
                                (j * 5) % 113), 1, 0),
               "scheduled_update", (j * 11) % 127)]

AreaBoxes == {<<100, 105>>, <<100, 108>>}

AreaWindows == {<< <<>>, <<>> >>, << <<1>>, <<2>> >>}

AreaDataTypes == {"vessel", "track", "ais", "all"}

AreaPages == {1, 2, 3}

AreaQueries(pages, autoFetch) ==
    {[minLongitude |-> lon[1], maxLongitude |-> lon[2],
      minLatitude |-> -1, maxLatitude |-> 5,
      startDate |-> window[1], endDate |-> window[2],
      dataType |-> dataType, page |-> page, autoFetch |-> auto] :
        lon \in AreaBoxes, window \in AreaWindows, dataType \in AreaDataTypes,
        page \in pages, auto \in autoFetch}

InitArea ==
    /\ \/ current = ThreeCurrent /\ logs = <<>>
       \/ current = MixedCurrent /\ logs = MixedLogs
       \/ current = ManyCurrent /\ logs = ManyLogs
       \/ current = ManyCurrent /\ logs = MixedLogs
    /\ call = [p \in Procs |-> IdleCall]
    /\ used = 0
    /\ succ = [m \in MMSIs |-> 0]
    /\ hist = [m \in MMSIs |-> <<>>]
    /\ clean = [m \in MMSIs |-> TRUE]
    /\ InitCollector
    /\ dd = NoDedup
    /\ pb = NoPlayback
    /\ poi = IdlePoi
    /\ fleet = 0
    /\ gw = IdleGateway
    /\ processing = NoProcessing
    /\ retention = NoRetention

AreaCount ==
    /\ poi.pc = "idle"
    /\ \E query \in AreaQueries({1}, {FALSE}) : GetPOIAreaCount(query)

AreaPage ==
    /\ poi.pc = "idle"
    /\ \E query \in AreaQueries(AreaPages, BOOLEAN) : GetVesselsByPOIArea(query)

AreaAll ==
    /\ poi.pc = "idle"
    /\ \E query \in AreaQueries({1}, {FALSE}) : GetAllPOIAreaData(query)

NextArea ==
    \/ AreaCount \/ AreaPage \/ AreaAll
    \/ PoiCountSettled \/ PoiUniqueSettled \/ PoiPageFetched

SpecArea == InitArea /\ [][NextArea]_vars

-----------------------------------------------------------------------------
(* SpecBig: the two endpoints that fetch every page, on an area that holds
   exactly MaxAutoFetch current rows, or one more *)

BigQueries(autoFetch) ==
    {[minLongitude |-> 100, maxLongitude |-> 105,
      minLatitude |-> -1, maxLatitude |-> 5,
      startDate |-> <<>>, endDate |-> <<>>,
      dataType |-> "vessel", page |-> 1, autoFetch |-> auto] : auto \in autoFetch}

InitBig ==
    /\ current = <<>>
    /\ logs = <<>>
    /\ fleet \in {MaxAutoFetch, MaxAutoFetch + 1}
    /\ call = [p \in Procs |-> IdleCall]
    /\ used = 0
    /\ succ = [m \in MMSIs |-> 0]
    /\ hist = [m \in MMSIs |-> <<>>]
    /\ clean = [m \in MMSIs |-> TRUE]
    /\ InitCollector
    /\ dd = NoDedup
    /\ pb = NoPlayback
    /\ poi = IdlePoi
    /\ gw = IdleGateway
    /\ processing = NoProcessing
    /\ retention = NoRetention

BigPage ==
    /\ poi.pc = "idle"
    /\ \E query \in BigQueries(BOOLEAN) : GetVesselsByPOIArea(query)

BigAll ==
    /\ poi.pc = "idle"
    /\ \E query \in BigQueries({FALSE}) : GetAllPOIAreaData(query)

NextBig ==
    \/ BigPage \/ BigAll
    \/ PoiCountSettled \/ PoiUniqueSettled \/ PoiPageFetched

SpecBig == InitBig /\ [][NextBig]_vars

-----------------------------------------------------------------------------
(* SpecGateway: clients connect and disconnect, the collector broadcasts, the
   clock advances *)

MaxBroadcasts == 1

MaxListed == 2

\* the instants the clock takes: around the report times, and a day later
Clock == {5, 6, 1445}

\* the rows of the current collection: reported at 4, 5, 6 and 7
GatewayRow(mmsi, instant, updated) ==
    RowAt([mmsi |-> mmsi, latitude |-> 1, longitude |-> 104,
           timestamp |-> Stamp(instant), name |-> Unset], 1, updated)

GatewayRows ==
    <<GatewayRow(1, 5, 9), GatewayRow(2, 4, 8), GatewayRow(3, 6, 7),
      GatewayRow(4, 7, 6)>>

\* what a caller hands to the broadcasts: rows and positions with a report
\* time, without one, with one that does not parse, with data_date / data_time
GatewayVessels ==
    {[mmsi |-> 1, timestamp |-> t, data |-> NoTime] : t \in {NoTime, InvalidTime, 4, 6}}
      \cup {[mmsi |-> 2, timestamp |-> 5, data |-> NoTime],
            [mmsi |-> 2, timestamp |-> 4, data |-> 6],
            [mmsi |-> 2, timestamp |-> 6, data |-> InvalidTime]}

InitGateway ==
    /\ \/ current = <<>> /\ fleet = 0
       \/ current = GatewayRows /\ fleet = 0
       \/ current = <<GatewayRow(1, 5, 9)>> /\ fleet = SnapshotLimit
    /\ logs = <<>>
    /\ call = [p \in Procs |-> IdleCall]
    /\ used = 0
    /\ succ = [m \in MMSIs |-> 0]
    /\ hist = [m \in MMSIs |-> <<>>]
    /\ clean = [m \in MMSIs |-> TRUE]
    /\ InitCollector
    /\ dd = NoDedup
    /\ pb = NoPlayback
    /\ poi = IdlePoi
    /\ \E now \in {5, 1445} : gw = [IdleGateway EXCEPT !.now = now]
    /\ processing = NoProcessing
    /\ retention = NoRetention

Tick ==
    /\ gw.now + 1 \in Clock
    /\ gw' = [gw EXCEPT !.now = @ + 1]
    /\ UNCHANGED <<storeVars, collVars, dd, pb, poi, fleet, processing, retention>>

Connect == \E client \in GatewayClients : HandleConnection(client)

Disconnect == \E client \in GatewayClients : HandleDisconnect(client)

SendLatest ==
    \E client \in GatewayClients : \E ok \in BOOLEAN : SendLatestDataToClient(client, ok)

BroadcastUpdate ==
    /\ gw.sent < MaxBroadcasts
    /\ \E n \in 0..MaxListed :
         \E vessels \in [1..n -> GatewayVessels] : BroadcastVesselUpdate(Encode(vessels))

BroadcastPosition ==
    /\ gw.sent < MaxBroadcasts
    /\ \E mmsi \in {0, 1} : \E position \in GatewayVessels : \E given \in BOOLEAN :
         BroadcastVesselPosition(mmsi, position, given)

NextGateway ==
    \/ Tick \/ Connect \/ Disconnect \/ SendLatest
    \/ BroadcastUpdate \/ BroadcastPosition

SpecGateway == InitGateway /\ [][NextGateway]_vars

-----------------------------------------------------------------------------
(* TelkomsatClientService.mapVesselTypeToNumber / mapStatusToNumber and SpecMap:
   the two lookups on the type and status names of one upstream record *)

TypeMap ==
    "Cargo" :> 70 @@ "Tanker" :> 80 @@ "Tankers" :> 80 @@ "Passenger" :> 60
      @@ "Fishing" :> 30 @@ "Tug" :> 52 @@ "Pilot" :> 50
      @@ "Search and Rescue" :> 51 @@ "Pleasure Craft" :> 37
      @@ "High Speed Craft" :> 40 @@ "Other" :> 90 @@ "Military" :> 35
      @@ "Sailing" :> 36 @@ "Unknown" :> 0

StatusMap ==
    "Under Way Using Engine" :> 0 @@ "At Anchor" :> 1 @@ "Not Under Command" :> 2
      @@ "Restricted Manoeuvrability" :> 3 @@ "Constrained by Draught" :> 4
      @@ "Moored" :> 5 @@ "Aground" :> 6 @@ "Engaged in Fishing" :> 7
      @@ "Under Way Sailing" :> 8 @@ "Not Defined Default" :> 15
      @@ "Not Defined" :> 15

\* a JavaScript value the lookups yield
NumberValue(n) == [kind |-> "number", value |-> n]

FunctionValue == [kind |-> "function", value |-> 0]

Undefined == [kind |-> "undefined", value |-> 0]

\* keys every object literal inherits from Object.prototype
ObjectPrototypeKeys == {"constructor", "toString"}

\* map[key] on an object literal
PropertyOf(map, key) ==
    IF key \in DOMAIN map THEN NumberValue(map[key])
    ELSE IF key \in ObjectPrototypeKeys THEN FunctionValue
    ELSE Undefined

TruthyValue(v) == v.kind = "function" \/ (v.kind = "number" /\ v.value # 0)

\* !name: undefined, null or the empty string
Missing(name) == name \in {Unset, ""}

MapVesselTypeToNumber(type) ==
    IF Missing(type) THEN NumberValue(0)
    ELSE IF TruthyValue(PropertyOf(TypeMap, type)) THEN PropertyOf(TypeMap, type)
    ELSE NumberValue(0)

MapStatusToNumber(status) ==
    IF Missing(status) THEN NumberValue(15)
    ELSE IF TruthyValue(PropertyOf(StatusMap, status)) THEN PropertyOf(StatusMap, status)
    ELSE NumberValue(15)

\* the names an upstream record carries: the listed ones, others, none
TypeNames == DOMAIN TypeMap \cup {"cargo", "Dredger", "constructor", "", Unset}

StatusNames == DOMAIN StatusMap \cup {"Anchored", "toString", "", Unset}

InitMap ==
    /\ InitStore
    /\ InitCollector
    /\ dd = NoDedup
    /\ pb = NoPlayback
    /\ poi = IdlePoi
    /\ fleet = 0
    /\ gw = IdleGateway
    /\ processing \in {[pc |-> "input", input |-> [type |-> t, status |-> s],
                        output |-> <<>>] : t \in TypeNames, s \in StatusNames}
    /\ retention = NoRetention

\* processTelkomsatVessels, the classification fields of one record
MapFields ==
    /\ processing.pc = "input"
    /\ processing' =
         [processing EXCEPT
            !.pc = "mapped",
            !.output = [vesselType |-> MapVesselTypeToNumber(processing.input.type),
                        navStatus |-> MapStatusToNumber(processing.input.status)]]
    /\ UNCHANGED <<storeVars, collVars, dd, pb, poi, fleet, gw, retention>>

NextMap == MapFields

SpecMap == InitMap /\ [][NextMap]_vars

-----------------------------------------------------------------------------
(* TelkomsatCollectorService.handleScheduledCollection / broadcastLatestData
   and SpecBroadcast: the scheduler's ticks; a tick that runs collects, stores
   its batch and broadcasts afterwards *)

\* findOneAndUpdate at instant t: lastUpdated: new Date()
UpsertAt(coll, rep, t) ==
    IF Indices(coll, rep.mmsi) = {}
    THEN Append(coll, RowAt(rep, 1, t))
    ELSE LET i == MinOf(Indices(coll, rep.mmsi))
         IN  [coll EXCEPT ![i] =
                SetFields(coll[i], rep, NextUpdateCount(coll[i])) @@ [lastUpdated |-> t]]

\* updateCurrentVesselData run alone at instant t: the rows after the loop;
\* the reports at the positions in `failed` ended in errors[]
RECURSIVE ReconcileAt(_, _, _, _, _)
ReconcileAt(coll, list, failed, t, k) ==
    IF k > Len(list) THEN coll
    ELSE ReconcileAt(IF k \in failed THEN coll ELSE UpsertAt(coll, list[k], t),
                     list, failed, t, k + 1)

\* the tick has run: successfulCollections++, lastError = undefined, and after
\* the try block totalCollections++
TickSucceeded(s, c) ==
    [s EXCEPT !.successfulCollections = @ + 1,
              !.lastError = Unset,
              !.totalCollections = @ + 1,
              !.pc[c] = "idle"]

HandleScheduledCollection_CountsSkipped(c) ==
    /\ sched.pc[c] = "idle"
    /\ ~InFlight(c)
    /\ IF isCollecting
       THEN /\ sched' = [sched EXCEPT !.skipped = @ + 1, !.totalCollections = @ + 1]
            /\ UNCHANGED <<isCollecting, collection, requestCount, started>>
       ELSE /\ isCollecting' = TRUE
            /\ requestCount' = requestCount + 1
            /\ started' = started + 1
            /\ collection' = [collection EXCEPT ![c] =
                                [IdleCollection EXCEPT !.pc = "page1",
                                                       !.kind = "collect"]]
            /\ sched' = [sched EXCEPT !.ran = @ + 1, !.pc[c] = "collecting"]
    /\ UNCHANGED <<storeVars, callVars>>

\* handleScheduledCollection up to its first await: a tick that finds a
\* collection in progress warns and returns; otherwise collectAndStoreVessels
\* sets the flag and sends the first request of collectVesselsMassively
HandleScheduledCollection(c) ==
    /\ sched.pc[c] = "idle"
    /\ ~InFlight(c)
    /\ IF isCollecting
       THEN /\ sched' = [sched EXCEPT !.skipped = @ + 1]
            /\ UNCHANGED <<isCollecting, collection, requestCount, started>>
       ELSE /\ isCollecting' = TRUE
            /\ requestCount' = requestCount + 1
            /\ started' = started + 1
            /\ collection' = [collection EXCEPT ![c] =
                                [IdleCollection EXCEPT !.pc = "page1",
                                                       !.kind = "collect"]]
            /\ sched' = [sched EXCEPT !.ran = @ + 1, !.pc[c] = "collecting"]
    /\ UNCHANGED <<storeVars, callVars>>

\* the collection of a tick from its first request to the return of
\* collectAndStoreVessels, as one step (nothing else writes the store here):
\* `list` is what collectVesselsMassively returned, the reports at the
\* positions in `failed` ended in errors[]; result.collected = vessels.length;
\* finally the flag is cleared.  Neither collectVesselsMassively nor
\* updateCurrentVesselData rejects, so the tick's catch block is not entered.
\* Without a gateway or with nothing collected the tick ends here.
CollectionStoredAt(c, list, failed) ==
    /\ sched.pc[c] = "collecting"
    /\ collection[c].pc = "page1"
    /\ current' = ReconcileAt(current, list, failed, gw.now, 1)
    /\ isCollecting' = FALSE
    /\ collection' = [collection EXCEPT ![c] =
                        [IdleCollection EXCEPT
                           !.pc = IF HasGateway /\ Len(list) > 0 THEN "broadcast"
                                  ELSE "returned",
                           !.kind = "collect",
                           !.massive = list,
                           !.collected = Len(list),
                           !.stored = Len(list) - Cardinality(failed),
                           !.seen = {list[k].mmsi : k \in DOMAIN list \ failed}]]
    /\ sched' = IF HasGateway /\ Len(list) > 0 THEN sched ELSE TickSucceeded(sched, c)
    /\ UNCHANGED <<logs, call, used, succ, hist, clean, requestCount,
                   started, callVars>>

\* broadcastLatestData(result.collected) of the tick: getCurrentVessels(count)
\* is awaited and handed to broadcastVesselUpdate; a rejected query is caught
\* and logged; then the tick ends
BroadcastLatestData(c, ok) ==
    /\ sched.pc[c] = "collecting"
    /\ collection[c].pc = "broadcast"
    /\ collection' = [collection EXCEPT ![c].pc = "returned"]
    /\ sched' = TickSucceeded(sched, c)
    /\ IF ok
       THEN LET vessels == GetCurrentVessels(collection[c].collected)
                payload == UpdatePayload(vessels, gw.now)
                emitted == IF vessels = <<>> \/ payload.vessels = <<>> THEN <<>>
                           ELSE <<payload>>
            IN  gw' = [ServerEmit(gw, emitted)
                         EXCEPT !.last = [NoBroadcast EXCEPT !.op = "update",
                                                             !.vessels = vessels,
                                                             !.now = gw.now,
                                                             !.emitted = emitted],
                                !.sent = @ + 1]
       ELSE UNCHANGED gw
    /\ UNCHANGED <<storeVars, isCollecting, requestCount, started,
                   dd, pb, poi, fleet, processing, retention>>

\* the ticks of a behaviour that pass the guard, and those that are skipped
MaxTicks == 2

MaxSkipped == 2

\* the reports of the batch; the collection runs at minute 6: vessel 1
\* reported just now, vessel 3 just now or 2 minutes ago
BatchReports ==
    {[mmsi |-> r[1], latitude |-> 1, longitude |-> 104, timestamp |-> Stamp(r[2]),
      name |-> Unset] : r \in {<<1, 6>>, <<3, 6>>, <<3, 4>>}}

\* the store before the first tick: empty, or the row an earlier batch wrote
\* for vessel 2 a minute ago
InitBroadcast ==
    /\ current \in {<<>>, <<GatewayRow(2, 5, 5)>>}
    /\ logs = <<>>
    /\ call = [p \in Procs |-> IdleCall]
    /\ used = 0
    /\ succ = [m \in MMSIs |-> 0]
    /\ hist = [m \in MMSIs |-> <<>>]
    /\ clean = [m \in MMSIs |-> TRUE]
    /\ InitCollector
    /\ dd = NoDedup
    /\ pb = NoPlayback
    /\ poi = IdlePoi
    /\ fleet = 0
    /\ gw = [IdleGateway EXCEPT !.now = 6, !.clients = {1}, !.seen = {1}]
    /\ processing = NoProcessing
    /\ retention = NoRetention

ScheduledTick ==
    \E c \in Procs :
      /\ IF isCollecting THEN sched.skipped < MaxSkipped ELSE sched.ran < MaxTicks
      /\ HandleScheduledCollection(c)

CollectionStored ==
    \E c \in Procs : \E n \in 0..MaxListed : \E list \in [1..n -> BatchReports] :
      \E failed \in SUBSET (1..n) : CollectionStoredAt(c, list, failed)

BroadcastLatest == \E c \in Procs : \E ok \in BOOLEAN : BroadcastLatestData(c, ok)

NextBroadcast == ScheduledTick \/ CollectionStored \/ BroadcastLatest

SpecBroadcast == InitBroadcast /\ [][NextBroadcast]_vars

-----------------------------------------------------------------------------
(* Properties of the reconciliation engine, checked under Spec *)

RowCount(m) == Cardinality(Indices(current, m))

LogsOf(m) == SelectSeq(logs, LAMBDA e : e.mmsi = m)

\* no call is between the lookup and the upsert of a report
AtReportBoundary == \A p \in Procs : call[p].pc \notin {"archive", "upsert"}

\* document x holds the fields that report rep carries
Carries(x, rep) ==
    /\ x.mmsi = rep.mmsi
    /\ x.latitude = rep.latitude
    /\ x.longitude = rep.longitude
    /\ x.timestamp = NewDate(rep.timestamp)
    /\ (rep.name # Unset => x.name = rep.name)

\* C1: the current collection never holds two documents of one mmsi, and holds
\* exactly one for every mmsi that was reconciled successfully at least once
\* (by updateCurrentVesselData or by bulkUpsertVessels).
C1_OneRowPerMmsi ==
    \A m \in MMSIs :
      /\ RowCount(m) <= 1
      /\ (succ[m] > 0 => RowCount(m) = 1)

C1_Witness ==
    /\ succ[1] >= 2
    /\ succ[2] >= 1
    /\ Len(current) = 2

\* C2: after n >= 1 reports of one mmsi went through updateCurrentVesselData
\* without failure, the current document holds the fields of the n-th report
\* and the log holds exactly n-1 entries of that mmsi: entry i holds the fields
\* of report i, with status 'archived' and archiveReason 'scheduled_update'
\* (n = 1: no entry).
C2_RowAndArchive ==
    \A m \in MMSIs :
      (clean[m] /\ Len(hist[m]) >= 1 /\ AtReportBoundary) =>
        LET n  == Len(hist[m])
            lg == LogsOf(m)
        IN  /\ Carries(FindOne(current, m), hist[m][n])
            /\ Len(lg) = n - 1
            /\ \A i \in 1..(n - 1) :
                 /\ Carries(lg[i], hist[m][i])
                 /\ lg[i].status = "archived"
                 /\ lg[i].archiveReason = "scheduled_update"

C2_Witness ==
    /\ clean[1]
    /\ Len(hist[1]) = 3
    /\ hist[1][1].timestamp # hist[1][2].timestamp
    /\ AtReportBoundary

\* C3: a run of updateCurrentVesselData over N reports in which nothing failed
\* returns archivedCount = N - k, k being the number of distinct MMSIs of the
\* list that had no current document when the run started.
C3_ArchiveCountLaw ==
    \A p \in Procs :
      LET c == call[p]
      IN  (c.op = "update" /\ c.pc = "done" /\ c.errors = <<>>) =>
            c.archivedCount =
              Len(c.list) - Cardinality({c.list[k].mmsi : k \in DOMAIN c.list} \ c.known0)

C3_Witness ==
    LET c == call[1]
    IN  /\ c.op = "update" /\ c.pc = "done" /\ c.errors = <<>>
        /\ Len(c.list) = 2
        /\ c.list[1].mmsi = c.list[2].mmsi
        /\ c.list[1].mmsi \notin c.known0
        /\ c.known0 # {}

\* C4: with reconciliations running one after another, the updateCount of an
\* mmsi's current document equals the number of successful reconciliations of
\* that mmsi, whatever the mix of updateCurrentVesselData and bulkUpsertVessels
\* (so each one raises it by exactly 1 and the first sets it to 1).
C4_UpdateCountIsSuccesses ==
    \A m \in MMSIs :
      RowCount(m) >= 1 => FindOne(current, m).updateCount = succ[m]

C4_Witness ==
    /\ succ[1] = 3
    /\ Len(hist[1]) \in {1, 2}
    /\ FindOne(current, 1).updateCount = 3

\* C7: updateCurrentVesselData never aborts: it does not throw, each failed
\* report adds one message naming an mmsi of the list, the loop goes on, and
\* the result has newCurrentCount + length(errors) = totalProcessed = N.
C7_BatchNeverAborts ==
    \A p \in Procs :
      LET c == call[p]
      IN  c.op = "update" =>
            /\ c.pc # "threw"
            /\ c.newCurrentCount + Len(c.errors) =
                 (IF c.pc = "done" THEN Len(c.list) ELSE c.i - 1)
            /\ \A k \in DOMAIN c.errors :
                 \E j \in DOMAIN c.list : c.list[j].mmsi = c.errors[k]

C7_Witness ==
    LET c == call[1]
    IN  /\ c.op = "update" /\ c.pc = "done"
        /\ Len(c.list) = 2
        /\ c.list[1].mmsi # c.list[2].mmsi
        /\ c.errors = <<c.list[1].mmsi>>
        /\ c.newCurrentCount = 1
        /\ RowCount(c.list[2].mmsi) = 1

-----------------------------------------------------------------------------
(* Properties of the collector *)

\* C5: a call to collectAndStoreVessels or forceAggressiveCollection that
\* arrives while another caller's collection is in flight is rejected at once
\* with 'Collection already in progress': it issues no upstream request, writes
\* nothing to the store, leaves the flag and the running collection as they
\* are, and is not queued (it stays rejected when the running collection ends).
C5_SingleFlight ==
    [][\A c \in Procs :
         /\ ( /\ ~InFlight(c)
              /\ collection'[c] # collection[c]
              /\ \E d \in Procs \ {c} : InFlight(d) )
            => /\ collection'[c].pc = "rejected"
               /\ collection'[c].error = "Collection already in progress"
               /\ requestCount' = requestCount
               /\ current' = current
               /\ logs' = logs
               /\ call' = call
               /\ isCollecting' = isCollecting
               /\ \A d \in Procs \ {c} : collection'[d] = collection[d]
         /\ ( /\ collection[c].pc = "rejected"
              /\ \E d \in Procs \ {c} : InFlight(d) /\ ~InFlight(d)' )
            => collection'[c] = collection[c]
      ]_vars

C5_Witness ==
    \E c \in Procs : \E d \in Procs \ {c} :
      /\ collection[c].pc = "store"
      /\ call[c].pc = "upsert"
      /\ collection[d].pc = "rejected"
      /\ collection[d].kind = "aggressive"

-----------------------------------------------------------------------------
(* Properties of the deduplications *)

MmsisOf(vessels) == {vessels[k].mmsi : k \in DOMAIN vessels}

\* C6: deduplicateVessels and the merge of the aggressive collection return,
\* for each mmsi that occurs in the input, exactly one report; it is one of
\* the input's reports for that mmsi and no input report for that mmsi has a
\* later timestamp. They return no report of any other mmsi.
C6_LatestPerMmsi ==
    dd.pc \in {"deduplicated", "merged"} =>
      /\ MmsisOf(dd.output) = MmsisOf(dd.input)
      /\ \A m \in MmsisOf(dd.input) :
           /\ Cardinality(Indices(dd.output, m)) = 1
           /\ \A k \in Indices(dd.output, m) :
                /\ \E j \in Indices(dd.input, m) : dd.input[j] = dd.output[k]
                /\ \A j \in Indices(dd.input, m) :
                     NewDate(dd.input[j].timestamp) <= NewDate(dd.output[k].timestamp)

C6_Witness ==
    /\ dd.pc = "merged"
    /\ Len(dd.input) = 3
    /\ Len(dd.output) = 2
    /\ \E j \in DOMAIN dd.input : \E k \in DOMAIN dd.input :
         /\ j < k
         /\ dd.input[j].mmsi = dd.input[k].mmsi
         /\ dd.input[j].timestamp = <<1, TimesPerDay - 1>>
         /\ dd.input[k].timestamp = <<2, 0>>
         /\ \E o \in DOMAIN dd.output : dd.output[o] = dd.input[k]

-----------------------------------------------------------------------------
(* Properties of the playback *)

\* the positions of the full-resolution list that the sampled output keeps,
\* if the output is the sub-list at some set of positions
KeptPositions(found, output) ==
    {K \in SUBSET DOMAIN found :
       /\ Cardinality(K) = Len(output)
       /\ \A k \in K :
            output[Cardinality({j \in K : j <= k})] = TransformVesselLogForExport(found[k])}

LastKeptBefore(K, k) == CHOOSE j \in K : j < k /\ \A i \in K : i < k => i <= j

\* C8: for intervalMinutes = m > 1 the playback keeps the first archived point
\* of the window and afterwards keeps a point exactly when it lies at least m
\* minutes after the last kept point; consecutive points of the output are at
\* least m minutes apart, and every dropped point lies less than m minutes
\* after the kept point that precedes it.
C8_SampledPlayback ==
    (pb.pc = "returned" /\ pb.intervalMinutes > 1) =>
      LET found == FindPlaybackLogs(pb.mmsi, pb.startDate, pb.endDate)
          m     == pb.intervalMinutes
      IN  /\ \E K \in KeptPositions(found, pb.output) :
               /\ found # <<>> => 1 \in K
               /\ \A k \in DOMAIN found :
                    k > 1 =>
                      ( k \in K <=>
                          found[k].timestamp
                            - found[LastKeptBefore(K, k)].timestamp >= m )
          /\ \A i \in 1..(Len(pb.output) - 1) :
               pb.output[i + 1].timestamp - pb.output[i].timestamp >= m

C8_Witness ==
    /\ pb.pc = "returned"
    /\ pb.intervalMinutes = 2
    /\ Len(FindPlaybackLogs(pb.mmsi, pb.startDate, pb.endDate)) = 3
    /\ Len(pb.output) = 2
    /\ pb.output[1].timestamp = 1
    /\ pb.output[2].timestamp = 3
    /\ \E k \in DOMAIN logs : PlaybackQuery(logs[k], pb.mmsi, pb.startDate, pb.endDate)
                                /\ logs[k].timestamp = 2

\* the log entries a playback of the request is about: archived points of
\* the vessel inside the window
PlaybackPoints ==
    {k \in DOMAIN logs :
       /\ logs[k].mmsi = pb.mmsi
       /\ logs[k].status = "archived"
       /\ logs[k].timestamp >= NewDate(pb.startDate)
       /\ logs[k].timestamp <= NewDate(pb.endDate)}

\* C23: with intervalMinutes <= 1 the playback returns every archived point
\* of the vessel inside [startDate, endDate], once each, in ascending time
\* order; with any interval the output is a subsequence of that list: ascending,
\* only archived points of the vessel inside the window.
C23_FullResolution ==
    pb.pc = "returned" =>
      LET full == PlaybackData(pb.mmsi, pb.startDate, pb.endDate, 1)
      IN  /\ Len(full) = Cardinality(PlaybackPoints)
          /\ \A k \in PlaybackPoints :
               Cardinality({j \in DOMAIN full :
                              full[j] = TransformVesselLogForExport(logs[k])})
                 = Cardinality({j \in PlaybackPoints : logs[j] = logs[k]})
          /\ \A i \in 1..(Len(full) - 1) : full[i].timestamp <= full[i + 1].timestamp
          /\ pb.intervalMinutes <= 1 => pb.output = full
          /\ \E K \in SUBSET DOMAIN full :
               /\ Cardinality(K) = Len(pb.output)
               /\ \A k \in K : pb.output[Cardinality({j \in K : j <= k})] = full[k]
          /\ \A i \in DOMAIN pb.output :
               /\ pb.output[i].mmsi = pb.mmsi
               /\ pb.output[i].status = "archived"
               /\ pb.output[i].timestamp >= NewDate(pb.startDate)
               /\ pb.output[i].timestamp <= NewDate(pb.endDate)

\* interval 0 on an archive stored out of time order that also holds an entry
\* of the vessel that is not archived
C23_Witness ==
    /\ pb.pc = "returned"
    /\ pb.intervalMinutes = 0
    /\ Len(logs) = 3
    /\ logs[1].timestamp > logs[3].timestamp
    /\ logs[2].status = "active" /\ logs[2].mmsi = pb.mmsi
    /\ PlaybackPoints = {1, 3}
    /\ Len(pb.output) = 2
    /\ pb.output[1].timestamp = logs[3].timestamp
    /\ pb.output[2].timestamp = logs[1].timestamp

-----------------------------------------------------------------------------
(* Properties of the POI-area endpoints *)

InRange(query) ==
    /\ query.minLongitude >= -180 /\ query.maxLongitude <= 180
    /\ query.minLatitude >= -90 /\ query.maxLatitude <= 90

WellOrdered(query) ==
    /\ query.minLongitude < query.maxLongitude
    /\ query.minLatitude < query.maxLatitude

DatesOrdered(query) ==
    (GivenDate(query.startDate) /\ GivenDate(query.endDate))
      => DateOf(query.startDate) < DateOf(query.endDate)

\* C9: a request to the count, page or auto-fetch-all endpoint whose query has
\* minLongitude >= maxLongitude, minLatitude >= maxLatitude, a bound outside
\* [-180,180] / [-90,90], or both dates with startDate >= endDate is rejected,
\* and no storage operation is issued for it.
C9_InvalidQueryRejected ==
    (poi.pc # "idle"
       /\ ~(WellOrdered(poi.query) /\ InRange(poi.query) /\ DatesOrdered(poi.query)))
      => /\ poi.pc = "done"
         /\ poi.outcome = "rejected"
         /\ poi.ops = 0

C9_Witness ==
    /\ poi.endpoint = "count"
    /\ poi.query.minLongitude = 100
    /\ poi.query.maxLongitude = 100
    /\ poi.query.minLatitude = -1
    /\ poi.query.maxLatitude = 5
    /\ current # <<>>
    /\ poi.outcome = "rejected"
    /\ poi.error = "minLongitude must be less than maxLongitude"
    /\ poi.ops = 0

WholeGlobe(query) ==
    /\ query.minLongitude = -180 /\ query.maxLongitude = 180
    /\ query.minLatitude = -90 /\ query.maxLatitude = 90

\* C10: a request to the count, page or auto-fetch-all endpoint whose bounding
\* box (bounds in range, min < max) has an approximate area above 1,000,000 km2
\* is rejected without any storage operation; when the query violates no other
\* invariant the error is the area-exceeded one, as for the whole-globe box.
C10_LargeAreaRejected ==
    (poi.pc # "idle" /\ WellOrdered(poi.query) /\ InRange(poi.query)
       /\ CalculateBoundingBoxSize(poi.query) > MaxAreaKm2)
      => /\ poi.pc = "done"
         /\ poi.outcome = "rejected"
         /\ poi.ops = 0
         /\ DatesOrdered(poi.query) => poi.error = "Search area too large"

C10_Witness ==
    /\ poi.endpoint = "all"
    /\ WholeGlobe(poi.query)
    /\ current # <<>>
    /\ poi.outcome = "rejected"
    /\ poi.error = "Search area too large"
    /\ poi.ops = 0

-----------------------------------------------------------------------------
(* Properties of the POI-area data, checked under SpecArea *)

\* the document lies in the box of the query and inside its date window
InBox(doc, query) ==
    /\ query.minLongitude <= doc.longitude /\ doc.longitude <= query.maxLongitude
    /\ query.minLatitude <= doc.latitude /\ doc.latitude <= query.maxLatitude
    /\ query.startDate # <<>> => doc.timestamp >= query.startDate[1] * TimesPerDay
    /\ query.endDate # <<>> => doc.timestamp <= query.endDate[1] * TimesPerDay

CurrentRowsIn(query) == {k \in DOMAIN current : InBox(current[k], query)}

ArchivedEntriesIn(query) ==
    {k \in DOMAIN logs : InBox(logs[k], query) /\ logs[k].status = "archived"}

\* C11: getPOIAreaTotalCount counts only current rows for dataType 'vessel',
\* only archived log entries for 'track' and 'ais', and for 'all' returns
\* totalCount = current count + archived count with totalUnique = the number
\* of distinct MMSIs in the union of both; a box with 3 current vessels and 0
\* archived entries counted with 'all' gives totalCount 3, currentVessels 3,
\* archivedVessels 0.
C11_CountByDataType ==
    (poi.pc = "done" /\ poi.outcome = "ok" /\ poi.endpoint = "count" /\ fleet = 0)
      => LET query == poi.query
             cur == Cardinality(CurrentRowsIn(query))
             arc == Cardinality(ArchivedEntriesIn(query))
             curMmsis == {current[k].mmsi : k \in CurrentRowsIn(query)}
             arcMmsis == {logs[k].mmsi : k \in ArchivedEntriesIn(query)}
         IN  /\ query.dataType = "vessel"
                  => /\ poi.totalCount = cur
                     /\ poi.currentVessels = cur /\ poi.archivedVessels = 0
                     /\ poi.totalUnique = Cardinality(curMmsis)
             /\ query.dataType \in {"track", "ais"}
                  => /\ poi.totalCount = arc
                     /\ poi.currentVessels = 0 /\ poi.archivedVessels = arc
                     /\ poi.totalUnique = Cardinality(arcMmsis)
             /\ query.dataType = "all"
                  => /\ poi.totalCount = cur + arc
                     /\ poi.currentVessels = cur /\ poi.archivedVessels = arc
                     /\ poi.totalUnique = Cardinality(curMmsis \cup arcMmsis)
             /\ (query.dataType = "all" /\ cur = 3 /\ arc = 0)
                  => /\ poi.totalCount = 3
                     /\ poi.currentVessels = 3 /\ poi.archivedVessels = 0

\* 'all' on the box with three current vessels and no archived entry
C11_Witness ==
    /\ poi.pc = "done" /\ poi.outcome = "ok" /\ poi.endpoint = "count"
    /\ poi.query.dataType = "all"
    /\ Cardinality(CurrentRowsIn(poi.query)) = 3
    /\ Cardinality(ArchivedEntriesIn(poi.query)) = 0
    /\ Len(current) = 4
    /\ poi.totalCount = 3 /\ poi.currentVessels = 3 /\ poi.archivedVessels = 0
    /\ poi.totalUnique = 3

-----------------------------------------------------------------------------
(* Properties of the live channel, checked under SpecGateway *)

\* the report time of a vessel: data_date with data_time when it carries
\* them, its timestamp otherwise
ReportTime(vessel) ==
    IF "data" \in DOMAIN vessel /\ vessel.data # NoTime THEN vessel.data
    ELSE vessel.timestamp

\* the vessel has a report time, and its age at the instant now lies between
\* 0 and the given number of minutes
AgeWithin(vessel, now, minutes) ==
    /\ ReportTime(vessel) >= 0
    /\ now - ReportTime(vessel) >= 0
    /\ now - ReportTime(vessel) <= minutes

Occurrences(list, x) == Cardinality({k \in DOMAIN list : list[k] = x})

\* the two lists hold the same elements the same number of times
SameElements(a, b) ==
    /\ Len(a) = Len(b)
    /\ \A k \in DOMAIN a : Occurrences(a, a[k]) = Occurrences(b, a[k])

DecodeAll(runs) == Decode(runs, 1, Len(runs))

\* C12: broadcastVesselUpdate emits a 'vessel_update' message only when at
\* least one of the vessels it is given has an age between 0 and 1 minute; the
\* message then holds exactly those vessels (count is their number) and no
\* older vessel; when none is that fresh nothing is emitted.
\* broadcastVesselPosition emits exactly when the single position passes the
\* same 1-minute check.
C12_UpdateOnlyFresh ==
    LET given == DecodeAll(gw.last.vessels)
        fresh == SelectSeq(given, LAMBDA vessel : AgeWithin(vessel, gw.last.now, 1))
        emitted == gw.last.emitted
    IN  /\ gw.last.op = "update"
             => /\ fresh = <<>> => emitted = <<>>
                /\ fresh # <<>>
                     => /\ Len(emitted) = 1
                        /\ emitted[1].event = "vessel_update"
                        /\ emitted[1].count = Len(fresh)
                        /\ SameElements(DecodeAll(emitted[1].vessels), fresh)
        /\ gw.last.op = "position"
             => /\ emitted # <<>> => fresh # <<>>
                /\ (fresh # <<>> /\ gw.last.given /\ gw.last.mmsi # 0)
                     => /\ Len(emitted) = 2
                        /\ \A k \in 1..2 : DecodeAll(emitted[k].vessels) = fresh
        /\ \A c \in GatewayClients : \A k \in DOMAIN gw.inbox[c] :
             gw.inbox[c][k].event = "vessel_update"
               => \A vessel \in {DecodeAll(gw.inbox[c][k].vessels)[j] :
                                   j \in 1..gw.inbox[c][k].count} :
                    AgeWithin(vessel, gw.inbox[c][k].timestamp, 1)

\* a list of one fresh and one older vessel: the connected client receives
\* the fresh one alone
C12_Witness ==
    /\ gw.last.op = "update"
    /\ Len(gw.last.vessels) = 2
    /\ \E k \in 1..2 : ~AgeWithin(gw.last.vessels[k].doc, gw.last.now, 1)
                         /\ ReportTime(gw.last.vessels[k].doc) = 4
    /\ Len(gw.last.emitted) = 1
    /\ gw.last.emitted[1].count = 1
    /\ \E c \in GatewayClients :
         gw.inbox[c] # <<>> /\ gw.inbox[c][Len(gw.inbox[c])] = gw.last.emitted[1]

\* the initial messages ('initial_data' or 'initial_data_error') emitted to a client
InitialMessages(c) ==
    SelectSeq(gw.inbox[c],
              LAMBDA message : message.event \in {"initial_data", "initial_data_error"})

\* the row is one of the documents of the runs
Listed(runs, row) ==
    \E k \in DOMAIN runs :
      /\ row.mmsi >= runs[k].doc.mmsi /\ row.mmsi < runs[k].doc.mmsi + runs[k].n
      /\ row = [runs[k].doc EXCEPT !.mmsi = row.mmsi]

\* vessels of age within 1 minute come first; inside each group the newest
\* report time comes first
SnapshotOrder(runs, now) ==
    \A j, k \in DOMAIN runs :
      j < k => /\ AgeWithin(runs[k].doc, now, 1) => AgeWithin(runs[j].doc, now, 1)
               /\ (AgeWithin(runs[j].doc, now, 1) = AgeWithin(runs[k].doc, now, 1))
                    => ReportTime(runs[j].doc) >= ReportTime(runs[k].doc)

\* C13: each connect produces exactly one initial message to the connecting
\* client (none before the load has settled), and a snapshot holds every row
\* of the current collection whose age is within 24 hours and no other row,
\* the vessels of age within 1 minute first and, inside each group, the
\* newest report time first.
C13_InitialSnapshot ==
    \A c \in GatewayClients :
      /\ Len(InitialMessages(c)) = IF c \in gw.seen /\ c \notin gw.loading THEN 1 ELSE 0
      /\ \A k \in DOMAIN gw.inbox[c] :
           LET message == gw.inbox[c][k]
               inWindow == {i \in DOMAIN current :
                              AgeWithin(current[i], message.timestamp, 24 * 60)}
               counted == IF AgeWithin(FleetRow, message.timestamp, 24 * 60)
                          THEN fleet ELSE 0
           IN  message.event = "initial_data"
                 => /\ \A i \in inWindow : Listed(message.vessels, current[i])
                    /\ message.count = Cardinality(inWindow) + counted
                    /\ \A j \in DOMAIN message.vessels :
                         AgeWithin(message.vessels[j].doc, message.timestamp, 24 * 60)
                    /\ SnapshotOrder(message.vessels, message.timestamp)

\* the vessel has a report time that parses and is not later than now
Dated(vessel, now) ==
    /\ ReportTime(vessel) # NoTime
    /\ ReportTime(vessel) # InvalidTime
    /\ ReportTime(vessel) <= now

\* C21: the age check fails closed. No message of the live channel (initial
\* snapshot, vessel update, position update) lists a vessel whose report time
\* is missing, does not parse or lies after the instant of the message; a
\* broadcast given only such vessels emits nothing; the check answers true or
\* false for every vessel and both windows.
C21_FailsClosed ==
    /\ \A c \in GatewayClients : \A k \in DOMAIN gw.inbox[c] :
         \A j \in DOMAIN gw.inbox[c][k].vessels :
           Dated(gw.inbox[c][k].vessels[j].doc, gw.inbox[c][k].timestamp)
    /\ \A k \in DOMAIN gw.last.emitted :
         \A j \in DOMAIN gw.last.emitted[k].vessels :
           Dated(gw.last.emitted[k].vessels[j].doc, gw.last.now)
    /\ (gw.last.op \in {"update", "position"}
          /\ \A j \in DOMAIN gw.last.vessels : ~Dated(gw.last.vessels[j].doc, gw.last.now))
         => gw.last.emitted = <<>>
    /\ \A j \in DOMAIN gw.last.vessels :
         /\ IsVesselFreshForInitial(gw.last.vessels[j].doc, gw.last.now) \in BOOLEAN
         /\ IsVesselFreshForUpdate(gw.last.vessels[j].doc, gw.last.now) \in BOOLEAN
         /\ ~Dated(gw.last.vessels[j].doc, gw.last.now)
              => /\ ~IsVesselFreshForInitial(gw.last.vessels[j].doc, gw.last.now)
                 /\ ~IsVesselFreshForUpdate(gw.last.vessels[j].doc, gw.last.now)

\* an update of a vessel without a time and a vessel from the future, with a
\* client listening: nothing is emitted
C21_Witness ==
    /\ gw.last.op = "update"
    /\ gw.clients # {}
    /\ Len(gw.last.vessels) = 2
    /\ \E j \in 1..2 : ReportTime(gw.last.vessels[j].doc) = NoTime
    /\ \E j \in 1..2 : /\ ReportTime(gw.last.vessels[j].doc) > gw.last.now
    /\ gw.last.emitted = <<>>

-----------------------------------------------------------------------------
(* Properties of the upstream collection, checked under SpecCollector *)

InMassive(c) == collection[c].pc \in {"page1", "fallbackTry", "fallbackCatch", "pages"}

\* C14: in one collectVesselsMassively call the minimal fallback request
\* (page 1, size 10) is issued at most once, and only when the page-1 request
\* returned no reports or failed (no page has delivered a report by then).
C14_FallbackOnce ==
    \A c \in Procs :
      /\ collection[c].fallbacks <= 1
      /\ collection[c].pc \in {"fallbackTry", "fallbackCatch"}
           => collection[c].fallbacks >= 1 /\ collection[c].seen = {}

\* the MMSIs of the list collectVesselsMassively handed to its caller
ResultMmsis(coll) ==
    IF coll.kind = "collect" THEN MmsisOf(coll.massive) ELSE MmsisOf(coll.all)

\* C15: when page 1 returns reports, pages 2, 3 and 4 are requested together
\* (three requests before any of them settles); the call then returns, after
\* the three have settled, a list that covers exactly the MMSIs of page 1 and
\* of the fulfilled pages among 2-4, whatever the number of rejected pages.
C15_PartialSuccess ==
    [][\A c \in Procs :
         /\ (collection[c].pc = "page1" /\ collection'[c].pc = "pages")
              => /\ requestCount' = requestCount + 3
                 /\ collection'[c].settled = 0
         /\ collection[c].pc = "pages"
              => /\ collection'[c].pc \in {"pages", "store", "others"}
                 /\ collection'[c].pc = "pages"
                      => collection'[c].settled <= 2
                 /\ collection'[c].pc # "pages"
                      => /\ collection[c].settled = 2
                         /\ collection'[c].seen # {}
                         /\ ResultMmsis(collection'[c]) = collection'[c].seen
      ]_vars

C15_Witness ==
    \E c \in Procs :
      /\ collection[c].kind = "collect"
      /\ collection[c].pc = "store"
      /\ collection[c].fallbacks = 0
      /\ collection[c].failed >= 1
      /\ collection[c].seen = {1, 2}
      /\ MmsisOf(collection[c].massive) = {1, 2}

\* C16: collectAndStoreVessels fails only with 'Collection already in
\* progress', and only when the flag is set at the call. While it collects it
\* writes nothing to the stores; when no page delivered a report it returns
\* collected = 0 and stored = 0 without entering the store phase and with the
\* flag cleared, and it enters the store phase only with a non-empty list.
C16_EmptyCollection ==
    [][\A c \in Procs :
         /\ ( /\ collection'[c] # collection[c]
              /\ collection'[c].kind = "collect"
              /\ collection'[c].error # "none" )
            => /\ isCollecting
               /\ collection'[c].pc = "rejected"
               /\ collection'[c].error = "Collection already in progress"
         /\ (collection[c].kind = "collect" /\ InMassive(c))
            => /\ current' = current
               /\ logs' = logs
               /\ collection'[c].pc \in {"page1", "fallbackTry", "fallbackCatch",
                                         "pages", "store", "returned"}
               /\ collection'[c].pc = "store"
                    => /\ collection'[c].massive # <<>>
                       /\ collection'[c].seen # {}
               /\ collection'[c].pc = "returned"
                    => /\ collection[c].seen = {}
                       /\ collection[c].pc \in {"fallbackTry", "fallbackCatch"}
                       /\ collection'[c].collected = 0
                       /\ collection'[c].stored = 0
                       /\ collection'[c].error = "none"
                       /\ call' = call
                       /\ ~isCollecting'
      ]_vars

C16_Witness ==
    \E c \in Procs :
      /\ collection[c].kind = "collect"
      /\ collection[c].pc = "returned"
      /\ collection[c].collected = 0
      /\ collection[c].stored = 0
      /\ requestCount = 3
      /\ current = <<>>
      /\ logs = <<>>
      /\ ~isCollecting

-----------------------------------------------------------------------------
(* Properties of the bulk path, checked under Spec *)

\* C17: bulkUpsertVessels leaves the archive as it is, and the result it
\* returns has archivedCount = 0, also when it overwrites existing rows.
C17_BulkNoArchive ==
    [][\A p \in DOMAIN call :
         (call'[p].op = "bulk" /\ used' # used)
           => /\ logs' = logs
              /\ call'[p].pc = "done" => call'[p].archivedCount = 0
      ]_vars

C17_Witness ==
    \E p \in DOMAIN call :
      /\ call[p].op = "bulk"
      /\ call[p].pc = "done"
      /\ call[p].archivedCount = 0
      /\ logs = <<>>
      /\ \E k \in DOMAIN call[p].list : call[p].list[k].mmsi \in call[p].known0
      /\ \E i \in DOMAIN current : current[i].updateCount >= 2

-----------------------------------------------------------------------------
(* Properties of the auto-fetch loop, checked under SpecArea *)

InLoop == poi.stage = "loop" /\ (poi.pc = "page" \/ (poi.pc = "done" /\ poi.outcome = "ok"))

\* the pages of the loop that have settled, and those of them that succeeded
SettledPages ==
    IF poi.pc = "page" THEN SubSeq(poi.requested, 1, Len(poi.requested) - 1)
    ELSE poi.requested

SucceededPages ==
    SelectSeq(SettledPages,
              LAMBDA page : \A k \in DOMAIN poi.errors : poi.errors[k] # page)

RECURSIVE PagesInOrder(_, _)
PagesInOrder(query, pages) ==
    IF pages = <<>> THEN <<>>
    ELSE DecodeAll(PageVessels(query, Head(pages))) \o PagesInOrder(query, Tail(pages))

\* C18: the auto-fetch loop asks for pages 1, 2, ..., totalPages of the count
\* taken at its start, one after the other and each once; a page that fails
\* leaves one entry in errors and the loop goes on; vessels is the
\* concatenation of the pages that succeeded, in page order; isComplete is
\* true exactly when no page failed.
C18_SequentialPages ==
    InLoop =>
      /\ poi.totalPages = TotalPages(TotalCount(poi.query))
      /\ Len(poi.requested) <= poi.totalPages
      /\ \A k \in DOMAIN poi.requested : poi.requested[k] = k
      /\ poi.pc = "page" => poi.page = Len(poi.requested)
      /\ poi.pc = "done" => Len(poi.requested) = poi.totalPages
      /\ \A k \in DOMAIN poi.errors :
           /\ \E j \in DOMAIN SettledPages : SettledPages[j] = poi.errors[k]
           /\ \A j \in DOMAIN poi.errors : j < k => poi.errors[j] < poi.errors[k]
      /\ DecodeAll(poi.vessels) = PagesInOrder(poi.query, SucceededPages)
      /\ IsComplete(poi) <=> SucceededPages = SettledPages

\* three pages of 'all', the second of which failed
C18_Witness ==
    /\ InLoop
    /\ poi.pc = "done"
    /\ poi.totalPages = 3
    /\ poi.requested = <<1, 2, 3>>
    /\ poi.errors = <<2>>
    /\ ~IsComplete(poi)
    /\ RunsLength(poi.vessels, 1, Len(poi.vessels)) = 120

-----------------------------------------------------------------------------
(* Properties of the auto-fetch endpoints, checked under SpecBig *)

\* C19: no page of the auto-fetch loop is requested for a query whose area
\* count exceeds 50,000, whichever endpoint started the loop.
C19_LoopGuarded ==
    (poi.stage = "loop" /\ TotalCount(poi.query) > MaxAutoFetch)
      => poi.requested = <<>>

-----------------------------------------------------------------------------
(* Properties of one page of 'all', checked under SpecArea *)

\* the positions a half page of page p covers in a list of n documents
HalfFirst(p) == (PageSize \div 2) * (p - 1) + 1

HalfLength(p, n) ==
    IF n < HalfFirst(p) THEN 0
    ELSE IF n - HalfFirst(p) + 1 > PageSize \div 2 THEN PageSize \div 2
    ELSE n - HalfFirst(p) + 1

\* docs[j] may stand at position q of the documents `among` of store, sorted
\* by key descending
AtPosition(doc, q, store, among, key) ==
    /\ \E k \in among : store[k] = doc
    /\ Cardinality({k \in among : store[k][key] > doc[key]}) < q
    /\ Cardinality({k \in among : store[k][key] >= doc[key]}) >= q

\* C20: a page p of dataType 'all' is the current rows at positions
\* 50(p-1)+1 .. 50p of the matching current rows in lastUpdated-descending
\* order, followed by the archived entries at the same positions of the
\* matching archived entries in timestamp-descending order; totalCount is the
\* sum of the two counts.
C20_AllPageHalves ==
    (poi.pc = "done" /\ poi.outcome = "ok" /\ poi.stage = "single"
       /\ poi.query.dataType = "all")
      => LET page     == poi.query.page
             rows     == CurrentRowsIn(poi.query)
             entries  == ArchivedEntriesIn(poi.query)
             vessels  == DecodeAll(poi.vessels)
             nCurrent == HalfLength(page, Cardinality(rows))
             nArchive == HalfLength(page, Cardinality(entries))
         IN  /\ Len(vessels) = nCurrent + nArchive
             /\ \A j \in 1..nCurrent :
                  AtPosition(vessels[j], HalfFirst(page) + j - 1,
                             current, rows, "lastUpdated")
             /\ \A j \in 1..nArchive :
                  AtPosition(vessels[nCurrent + j], HalfFirst(page) + j - 1,
                             logs, entries, "timestamp")
             /\ \A i, j \in 1..Len(vessels) : i < j => vessels[i] # vessels[j]
             /\ poi.totalCount = Cardinality(rows) + Cardinality(entries)

\* page 2 of a store with more than 100 matching documents on each side, the
\* oldest current row of the page being older than its newest archived entry
C20_Witness ==
    /\ poi.pc = "done" /\ poi.outcome = "ok" /\ poi.stage = "single"
    /\ poi.query.dataType = "all"
    /\ poi.query.page = 2
    /\ Cardinality(CurrentRowsIn(poi.query)) = AreaRows
    /\ Cardinality(ArchivedEntriesIn(poi.query)) = AreaLogs
    /\ poi.totalCount = AreaRows + AreaLogs
    /\ LET vessels == DecodeAll(poi.vessels)
       IN  /\ Len(vessels) = PageSize
           /\ vessels[PageSize \div 2].timestamp < vessels[PageSize \div 2 + 1].timestamp

-----------------------------------------------------------------------------
(* Properties of the processing of an upstream page, checked under SpecProcess *)

\* the field is there and is not the empty string
Filled(f) == f.given /\ Len(f.text) > 0

\* the parsed number is a number between lo and hi (in tenths)
Inside(number, lo, hi) == ~number.nan /\ lo <= number.value /\ number.value <= hi

\* the record is none of those the processing drops
Acceptable(tv) ==
    /\ tv.present
    /\ Filled(tv.mmsi) /\ Filled(tv.lat) /\ Filled(tv.lon)
    /\ Inside(ParseFloat(tv.lat.text), -900, 900)
    /\ Inside(ParseFloat(tv.lon.text), -1800, 1800)
    /\ ~ParseInt(tv.mmsi.text).nan /\ ParseInt(tv.mmsi.text).value >= 10

-----------------------------------------------------------------------------
(* Properties of cleanupOldLogs, checked under SpecRetention *)

\* past the retention horizon of d days at the instant of the cleanup
PastHorizon(log, now, d) == log.timestamp + d * TimesPerDay < now

Removable(log, now, d) == log.status = "archived" /\ PastHorizon(log, now, d)

RECURSIVE Remaining(_, _, _)
Remaining(list, now, d) ==
    IF list = <<>> THEN <<>>
    ELSE IF Removable(Head(list), now, d)
         THEN Remaining(Tail(list), now, d)
         ELSE <<Head(list)>> \o Remaining(Tail(list), now, d)

\* C24: a cleanupOldLogs(d) that returns removes exactly the log entries with
\* status 'archived' whose timestamp is more than d days (90 when d is omitted)
\* before the cleanup; every other entry stays, in order, the returned count is
\* the number removed, and no CurrentVessel row changes
C24_RemovesExactlyExpired ==
    [][retention.pc = "ready" /\ retention'.pc = "returned" =>
         /\ retention'.daysToKeep \in {DefaultDaysToKeep, 1, 0}
         /\ logs' = Remaining(logs, retention.now, retention'.daysToKeep)
         /\ retention'.deletedCount = Len(logs) - Len(logs')
         /\ current' = current]_vars

\* a default cleanup returned 1: the entry at the horizon and the old entry
\* that is not archived are still there, next to a CurrentVessel row older than
\* the horizon
C24_Witness ==
    /\ retention.pc = "returned"
    /\ retention.daysToKeep = DefaultDaysToKeep
    /\ retention.deletedCount = 1
    /\ current = <<RetentionRow>>
    /\ Len(logs) = 2
    /\ logs[1].status = "active"
    /\ PastHorizon(logs[1], retention.now, DefaultDaysToKeep)
    /\ logs[2].status = "archived"
    /\ logs[2].timestamp = CutoffDate(retention.now, DefaultDaysToKeep)

-----------------------------------------------------------------------------
(* Properties of the reconciliation order, checked under Spec *)

\* the latest report instant among the reports reconciled for an mmsi
LatestReconciled(m) ==
    CHOOSE t \in {NewDate(hist[m][i].timestamp) : i \in DOMAIN hist[m]} :
      \A i \in DOMAIN hist[m] : NewDate(hist[m][i].timestamp) <= t

\* C25: between two reports, after reconciliations of an mmsi that all
\* succeeded, the CurrentVessel row of the mmsi carries the latest report
\* timestamp among the reports reconciled for it
C25_HoldsLatest ==
    \A m \in MMSIs :
      (clean[m] /\ Len(hist[m]) >= 1 /\ AtReportBoundary) =>
        FindOne(current, m).timestamp = LatestReconciled(m)

-----------------------------------------------------------------------------
(* Properties of interleaved store calls, checked under SpecInterleaved *)

\* C26: no step of any interleaving of updateCurrentVesselData and
\* bulkUpsertVessels calls lowers the updateCount of the CurrentVessel row of
\* an mmsi
C26_CountNeverDecreases ==
    [][\A m \in MMSIs :
         (RowCount(m) >= 1 /\ FindOne(current', m) # NoRow) =>
           FindOne(current', m).updateCount >= FindOne(current, m).updateCount]_vars

\* every call has returned
Quiescent == \A p \in Procs : Returned(call[p])

\* C27: when interleaved updateCurrentVesselData calls on an mmsi have all
\* returned without a failed step, every snapshot of its row that was
\* overwritten is in the log exactly once: with n reconciled reports the log
\* holds n-1 entries of the mmsi, entry i carrying the fields of the i-th
\* report written
C27_ArchivedExactlyOnce ==
    \A m \in MMSIs :
      (Quiescent /\ clean[m] /\ Len(hist[m]) >= 1) =>
        /\ Len(LogsOf(m)) = Len(hist[m]) - 1
        /\ \A i \in 1..(Len(hist[m]) - 1) :
             i <= Len(LogsOf(m)) => Carries(LogsOf(m)[i], hist[m][i])

-----------------------------------------------------------------------------
(* Properties of the busy flag, checked under SpecCleanup *)

\* C28: at most one collection is between setting the busy flag and clearing
\* it in its finally block, in every state reached by collect calls, aggressive
\* collect calls, their steps and cleanup() calls
C28_OneCollection ==
    Cardinality({c \in Procs : InFlight(c)}) <= 1

-----------------------------------------------------------------------------
(* Properties of the return to Idle, checked under SpecReturn *)

\* C29: a collection in flight eventually returns and the busy flag is false
\* again, whatever its fetches deliver; and a collect call that arrives while
\* the flag is false is accepted: it sets the flag and sends its first request
C29_ReturnsToIdle ==
    /\ \A c \in Procs :
         (InFlight(c) /\ isCollecting) ~> (~InFlight(c) /\ ~isCollecting)
    /\ [][\A c \in Procs :
            (~isCollecting /\ ~InFlight(c) /\ collection'[c] # collection[c]) =>
              /\ collection'[c].pc = "page1"
              /\ isCollecting']_vars

\* the running collection stored a report and returned, and the next collect
\* call, of the other caller, was accepted
C29_Witness ==
    \E c \in Procs : \E d \in Procs \ {c} :
      /\ collection[c].pc = "returned"
      /\ collection[c].stored >= 1
      /\ collection[d].pc = "page1"
      /\ isCollecting
      /\ started = 1

-----------------------------------------------------------------------------
(* Properties of the completeness of the auto-fetch, checked under SpecArea *)

\* the stored documents a query of the given dataType matches
MatchingRecords(query) ==
    LET rows    == SelectSeq(current, LAMBDA doc : InBox(doc, query))
        entries == SelectSeq(logs, LAMBDA doc : InBox(doc, query)
                                                  /\ doc.status = "archived")
    IN  CASE query.dataType = "vessel" -> rows
          [] query.dataType \in {"track", "ais"} -> entries
          [] query.dataType = "all" -> rows \o entries

\* C30: an auto-fetch that returns isComplete = true has totalFetched =
\* expectedTotal, and its vessels hold every stored record the query matches
\* exactly once (the store does not change while it runs)
C30_CompleteMeansAll ==
    (InLoop /\ poi.pc = "done" /\ IsComplete(poi) /\ fleet = 0) =>
      LET vessels  == DecodeAll(poi.vessels)
          matching == MatchingRecords(poi.query)
      IN  /\ Len(vessels) = poi.totalCount
          /\ \A k \in DOMAIN matching :
               Occurrences(vessels, matching[k]) = Occurrences(matching, matching[k])

-----------------------------------------------------------------------------
(* Properties of a failed report, checked under Spec *)

\* the step puts the report the loop is at into errors[]
Fails(p) ==
    /\ call[p].op = "update"
    /\ call[p].pc \in {"find", "archive", "upsert"}
    /\ Len(call'[p].errors) = Len(call[p].errors) + 1

\* C31: when a report of updateCurrentVesselData ends up in errors[], the log
\* is as long as it was when the loop reached the report and the CurrentVessel
\* row of its mmsi is the one the lookup saw, whichever step failed
C31_FailedReportLeavesStores ==
    [][\A p \in Procs :
         Fails(p) =>
           LET m == call[p].list[call[p].i].mmsi
           IN  /\ Len(logs') = call[p].logged0
               /\ FindOne(current', m) = FindOne(current, m)
               /\ call[p].pc \in {"archive", "upsert"}
                    => FindOne(current', m) = call[p].existing]_vars

-----------------------------------------------------------------------------
(* Properties of the list collectVesselsMassively returns, checked under
   SpecCollector *)

\* no two positions of the list carry the same mmsi
OnePerMmsi(vessels) ==
    \A i, j \in DOMAIN vessels : vessels[i].mmsi = vessels[j].mmsi => i = j

\* C32: the list collectVesselsMassively has returned to collectAndStoreVessels
\* holds at most one report per mmsi, whichever return path produced it
C32_OneReportPerMmsi ==
    \A c \in Procs :
      (collection[c].kind = "collect" /\ collection[c].pc = "store") =>
        OnePerMmsi(collection[c].massive)

-----------------------------------------------------------------------------
(* Properties of the order of the messages a client receives, checked under
   SpecGateway *)

\* C33: while the initial snapshot of a connected client is still being
\* loaded, its socket has received no 'vessel_update' message
C33_SnapshotBeforeUpdates ==
    \A client \in gw.loading :
      \A k \in DOMAIN gw.inbox[client] :
        gw.inbox[client][k].event # "vessel_update"

-----------------------------------------------------------------------------
(* Properties of the broadcast after a collection, checked under SpecBroadcast *)

\* the MMSIs of the vessels in the messages of the last broadcast
EmittedMmsis ==
    UNION {{DecodeAll(gw.last.emitted[k].vessels)[j].mmsi :
              j \in DOMAIN DecodeAll(gw.last.emitted[k].vessels)} :
           k \in DOMAIN gw.last.emitted}

\* C34: the update message broadcast after a collection holds only vessels
\* whose report the collection's batch stored
C34_OnlyBatchVessels ==
    [][\A c \in Procs :
         (collection[c].pc = "broadcast" /\ collection'[c].pc = "returned"
            /\ gw'.sent = gw.sent + 1) =>
           EmittedMmsis' \subseteq collection[c].seen]_vars

-----------------------------------------------------------------------------
(* Properties of a failed operation of the bulk write, checked under Spec *)

\* the reports of the bulk call of p that the step applied, per the history succ
Applied(m) == succ'[m] - succ[m]

\* C35: in bulkUpsertVessels a failed upsert does not stop the others (every
\* report that did not fail has its row afterwards), and the call returns a
\* result that counts the reports that succeeded
C35_BulkReturnsPartialResult ==
    [][\A p \in Procs :
         (call'[p].op = "bulk" /\ used' # used) =>
           /\ \A m \in MMSIs : Applied(m) > 0 => FindOne(current', m) # NoRow
           /\ call'[p].pc = "done"
           /\ call'[p].newCurrentCount =
                Cardinality({k \in DOMAIN call'[p].list :
                               Applied(call'[p].list[k].mmsi) > 0})]_vars

-----------------------------------------------------------------------------
(* Properties of the boxes the POI-area queries accept, checked under SpecPoi *)

\* the box of the request passes the pipe and validatePOIAreaQuery
ValidBox(p) ==
    /\ p.endpoint = "page" => ValidateQueryPOIAreaDto(p.query)
    /\ ValidatePOIAreaQuery(p.query) = "valid"

\* C36: a request of getPOIAreaTotalCount or getVesselsByPOIArea whose box
\* satisfies the validation invariants is queried against storage, also when
\* a bound of the box is exactly 0
C36_ValidBoxIsQueried ==
    (poi.endpoint \in {"count", "page"} /\ poi.pc # "idle" /\ ValidBox(poi)) =>
      poi.ops > 0

-----------------------------------------------------------------------------
(* Properties of the type and status lookups, checked under SpecMap *)

\* what the table lists for the name, and the default for any other name
TableCode(map, name, default) ==
    IF name \in DOMAIN map THEN NumberValue(map[name]) ELSE NumberValue(default)

\* C37: mapStatusToNumber returns the code the table lists for a listed status
\* name and 15 for any other or missing name; mapVesselTypeToNumber returns the
\* code the table lists for a listed type name and 0 for any other or missing
\* name
C37_LookupReturnsListedCode ==
    processing.pc = "mapped" =>
      /\ processing.output.navStatus = TableCode(StatusMap, processing.input.status, 15)
      /\ processing.output.vesselType = TableCode(TypeMap, processing.input.type, 0)

-----------------------------------------------------------------------------
(* Properties of the scheduler's ticks, checked under SpecBroadcast *)

\* the step is a tick that found a collection in progress
TickSkipped == sched'.skipped = sched.skipped + 1

\* the step is a tick that passed the guard
TickRuns == sched'.ran = sched.ran + 1

\* a collection is between its first request and its return
CollectionInProgress == \E c \in Procs : collection[c].pc = "page1"

\* the step ends the tick of caller c
TickEnds(c) == sched.pc[c] = "collecting" /\ sched'.pc[c] = "idle"

\* C38: a tick that fires while a collection is in progress is skipped: no
\* upstream request, no error, totalCollections, successfulCollections and
\* lastError as before, nothing left to run later; a tick that runs raises
\* totalCollections by exactly 1
C38_BusyTickSkipped ==
    /\ []((\A c \in Procs : sched.pc[c] = "idle") =>
            sched.totalCollections = sched.ran)
    /\ [][/\ TickRuns => ~CollectionInProgress
          /\ TickSkipped =>
               /\ CollectionInProgress
               /\ requestCount' = requestCount
               /\ collection' = collection
               /\ isCollecting' = isCollecting
               /\ sched' = [sched EXCEPT !.skipped = @ + 1]
               /\ UNCHANGED <<storeVars, callVars>>
          /\ sched'.totalCollections # sched.totalCollections =>
               \E c \in Procs : TickEnds(c)
          /\ \A c \in Procs :
               TickEnds(c) => sched'.totalCollections = sched.totalCollections + 1]_vars

\* a tick was skipped, and the tick that ran has ended
C38_Witness ==
    /\ sched.skipped > 0
    /\ sched.totalCollections > 0
    /\ \A c \in Procs : sched.pc[c] = "idle"

-----------------------------------------------------------------------------
(* Properties of the quick count, checked under SpecQuick *)

\* C39: the quick-count endpoint enforces the validation invariants of the
\* other POI-area endpoints (min < max on both axes, bounds in range, area at
\* most 1,000,000 km2): a box that violates one of them causes no storage access
C39_QuickCountValidates ==
    (poi.endpoint = "quick" /\ ValidatePOIAreaQuery(poi.query) # "valid") =>
      poi.ops = 0

-----------------------------------------------------------------------------
(* Properties of what the writers leave in place, checked under SpecInterleaved *)

\* the MMSIs that have a current row
CurrentMmsis(coll) == {coll[k].mmsi : k \in DOMAIN coll}

\* C40: no step of a reconcile or bulk call removes or modifies an existing log
\* entry or removes a current row: the archive only gains entries and the set
\* of MMSIs with a current row only grows
C40_StoresOnlyGrow ==
    [][/\ Len(logs') >= Len(logs)
       /\ SubSeq(logs', 1, Len(logs)) = logs
       /\ CurrentMmsis(current) \subseteq CurrentMmsis(current')]_vars

\* two vessels have a row, one of them was archived, and a bulk write has run
C40_Witness ==
    /\ Cardinality(CurrentMmsis(current)) >= 2
    /\ Len(logs) >= 1
    /\ \E p \in Procs : call[p].op = "bulk"

=============================================================================
